---------------------------- MODULE Spec2Model ----------------------------
(***************************************************************************)
(* jwt-auth-manager: the refresh-token lifecycle (issue, refresh with      *)
(* rotation / reuse detection / device binding, logout, cleanup) over the  *)
(* in-memory token storage, with the two signed token kinds.               *)
(*                                                                         *)
(* Time is counted in seconds (the resolution of a token's iat/exp);       *)
(* Date values are in milliseconds, Date.now() = now * 1000.               *)
(* A refresh call yields at every await, so concurrent calls interleave    *)
(* between the atomic blocks RefreshStart / CheckUsage / CheckDeviceExpiry *)
(* / MarkUsed / Generate.                                                  *)
(*                                                                         *)
(* The rate limiter (checkRateLimit / recordAttempt over the in-memory     *)
(* rate-limit storage) is the second component: its own state, the same    *)
(* clock, and the deletion timers the storage arms with every save.        *)
(***************************************************************************)
EXTENDS Integers, Sequences, FiniteSets, Bags, TLC

VARIABLES
    env,        \* what the environment does in this behaviour: callers, subjects, devices
    config,     \* AuthContext.config and .securityOptions, and the build's variants
    now,        \* the clock, in seconds
    tokens,     \* createMemoryStorage: the Map token -> RefreshTokenData
    idCounter,  \* createMemoryStorage: idCounter
    issuedRT,   \* every refresh token handed to a caller so far (in issue order)
    exchanged,  \* bag of the jti a successful refresh has exchanged (once per success)
    cascaded,   \* jti of the tokens that were issued to a subject before a replay cascade on it
    mismatched, \* jti of the tokens a refresh has rejected with a device mismatch
    proc,       \* per caller: the call in flight, or the call that has just returned
                \* (late, afterCascade, usedBefore, expiredBefore: what was true of the
                \* presented token when the call began)
    options,            \* RateLimitContext.options
    rateLimitEntries,   \* createMemoryRateLimitStorage: the Map key -> RateLimitEntry
    bruteForceEntries,  \* createMemoryRateLimitStorage: the Map userId -> BruteForceEntry
    timers,             \* the setTimeout callbacks the storage has armed and that have not run
    recorded,   \* per identifier: recordAttempt calls counted since its counter was last absent
    failures,   \* per subject: failed recordAttempt calls made since the last successful one or deletion
    lastBlock,  \* per identifier: the blockedUntil a check has persisted, until the next record or allowed check
    inForce,    \* where env.watch: the blockedUntil (per identifier) and lockedUntil (per subject) a check has persisted, while it lies ahead and no unlock has cleared it
    calls,      \* per caller: the checkRateLimit / recordAttempt call in flight or just returned
    requests    \* per caller: the HTTP request the rate-limit pipeline is serving for it

limiter == <<options, rateLimitEntries, bruteForceEntries, timers, recorded, failures, lastBlock,
             inForce, calls, requests>>

vars == <<env, config, now, tokens, idCounter, issuedRT, exchanged, cascaded, mismatched, proc,
          options, rateLimitEntries, bruteForceEntries, timers, recorded, failures, lastBlock,
          inForce, calls, requests>>

-----------------------------------------------------------------------------
(* Bounds *)

MaxTokens == 3      \* refresh tokens generated in one behaviour of Spec
MaxTime == 2        \* seconds the clock may advance in Spec
RaceTokens == 3     \* the same two bounds for SpecRace,
RaceTime == 1
DeviceTokens == 2   \* for SpecDevice
DeviceTime == 2
CodecTokens == 2    \* for SpecCodec
CodecTime == 1
LogoutTokens == 3   \* and for SpecLogout
LogoutTime == 2
LimiterRecords == 3 \* recordAttempt calls counted per identifier and per subject in SpecLimiter
LimiterTime == 3    \* seconds the clock may advance in SpecLimiter
ListsRecords == 2   \* the same two bounds for SpecLists
ListsTime == 1
TracksRecords == 2  \* and for SpecTracks
TracksTime == 1
LimiterRaceRecords == 3     \* and for SpecLimiterRace
LimiterRaceTime == 1
ManagedRecords == 2 \* and for SpecManaged
ManagedTime == 1
PipelineRecords == 3    \* and for SpecPipeline
PipelineTime == 2
BlocksRecords == 3   \* recordAttempt calls counted per identifier in SpecBlocks
PersistRecords == 3  \* recordAttempt calls counted per identifier and per subject in SpecPersist
PersistTime == 3     \* seconds the clock may advance in SpecPersist
BlocksTime == 3      \* seconds the clock may advance in SpecBlocks
FaultyTokens == 3   \* refresh tokens generated in one behaviour of SpecFaulty
FaultyTime == 1     \* seconds the clock may advance in SpecFaulty
ExpiryTokens == 3   \* refresh tokens generated in one behaviour of SpecExpiry
ExpiryTime == 2     \* seconds the clock may advance in SpecExpiry

Procs == {1, 2}             \* callers of refreshTokens, which may run concurrently
Atomic == 0                 \* the caller of the operations that have no await before their store call
Callers == {Atomic} \cup Procs
Users == {"u1", "u2"}
Fingerprints == {"F", "G"}
NoFp == "undefined"         \* deviceInfo absent, or fingerprint absent/empty (falsy)
NoHash == <<>>             \* no deviceHash claim
NoJti == <<>>              \* no jti claim
None == [none |-> TRUE]     \* null / undefined object
Malformed == [malformed |-> TRUE]   \* a string that is no JWT

ACCESS_SECRET == "access-secret"
REFRESH_SECRET == "refresh-secret"

-----------------------------------------------------------------------------
(* utils/helper *)

units == [s |-> 1000, m |-> 60 * 1000, h |-> 60 * 60 * 1000, d |-> 24 * 60 * 60 * 1000]

\* An expiry string "<amount><unit>" is the record [amount, unit]; a unit
\* outside s, m, h, d stands for a string the pattern does not match.
expiryMatch(expiry) == expiry.unit \in DOMAIN units

\* (defined for the strings that match; parseExpiry throws on the others)
parseExpiry(expiry) == expiry.amount * units[expiry.unit]

generateDeviceHash(fingerprint) == <<"sha256", fingerprint>>

generateJti(n) == <<"uuid", n>>

\* jsonwebtoken: expiresIn given as a string goes through the ms package and
\* is floored to seconds; given as a number it is taken as seconds.
timespanString(expiry) == (expiry.amount * units[expiry.unit]) \div 1000
\* jwt.sign throws when the string is no timespan; of the strings above those
\* are the ones with a unit outside s, m, h, d.
timespanDefined(expiry) == expiry.unit \in DOMAIN units
timespanNumber(n) == n

\* jwt.sign: the payload, the iat/exp claims, and the key of the signature.
jwtSign(payload, secret, expiresInSeconds, clock) ==
    [userId |-> payload.userId, type |-> payload.type, jti |-> payload.jti,
     deviceHash |-> payload.deviceHash,
     iat |-> clock, exp |-> clock + expiresInSeconds, key |-> secret]

\* jwt.verify: signature first, then expiry (clockTimestamp >= exp is expired).
jwtVerify(token, secret, clock) ==
    IF token = Malformed THEN [success |-> FALSE, error |-> "jwt malformed"]
    ELSE IF token.key # secret THEN [success |-> FALSE, error |-> "invalid signature"]
    ELSE IF clock >= token.exp THEN [success |-> FALSE, error |-> "jwt expired"]
    ELSE [success |-> TRUE, data |-> token]

-----------------------------------------------------------------------------
(* core/tokenVerification: two definitions are shipped; config.verification *)
(* says which one the build resolves to.                                    *)

verifyAccessTokenTyped(token, clock) ==
    LET r == jwtVerify(token, config.accessTokenSecret, clock)
    IN  IF ~r.success THEN r
        ELSE IF r.data.type # "access"
             THEN [success |-> FALSE, error |-> "Invalid token type"]
             ELSE r

verifyRefreshTokenTyped(token, clock) ==
    LET r == jwtVerify(token, config.refreshTokenSecret, clock)
    IN  IF ~r.success THEN r
        ELSE IF r.data.type # "refresh"
             THEN [success |-> FALSE, error |-> "Invalid token type"]
             ELSE r

verifyAccessTokenUntyped(token, clock) ==
    LET r == jwtVerify(token, config.accessTokenSecret, clock)
    IN  IF ~r.success
        THEN [success |-> FALSE, error |-> "Invalid or expired access token"]
        ELSE r

verifyRefreshTokenUntyped(token, clock) ==
    LET r == jwtVerify(token, config.refreshTokenSecret, clock)
    IN  IF ~r.success
        THEN [success |-> FALSE, error |-> "Invalid or expired refresh token"]
        ELSE r

verifyAccessToken(token, clock) ==
    IF config.verification = "typed"
    THEN verifyAccessTokenTyped(token, clock)
    ELSE verifyAccessTokenUntyped(token, clock)

verifyRefreshToken(token, clock) ==
    IF config.verification = "typed"
    THEN verifyRefreshTokenTyped(token, clock)
    ELSE verifyRefreshTokenUntyped(token, clock)

-----------------------------------------------------------------------------
(* core/tokenGeneration: two definitions are shipped; config.generation     *)
(* says which one the build resolves to.  "string" passes the expiry string *)
(* to jwt.sign (and signs the refresh token with accessTokenExpiry),        *)
(* "parsed" passes parseExpiry(...) milliseconds as a number of seconds.    *)

accessExpiresIn ==
    IF config.generation = "string"
    THEN timespanString(config.accessTokenExpiry)
    ELSE timespanNumber(parseExpiry(config.accessTokenExpiry))

refreshExpiresIn ==
    IF config.generation = "string"
    THEN timespanString(config.accessTokenExpiry)
    ELSE timespanNumber(parseExpiry(config.refreshTokenExpiry))

\* A variant that signs the access token with the refresh secret.
generateAccessTokenRefreshSigned(userId, clock) ==
    jwtSign([userId |-> userId, type |-> "access", jti |-> NoJti, deviceHash |-> NoHash],
            config.refreshTokenSecret, accessExpiresIn, clock)

generateAccessToken(userId, clock) ==
    jwtSign([userId |-> userId, type |-> "access", jti |-> NoJti, deviceHash |-> NoHash],
            config.accessTokenSecret, accessExpiresIn, clock)

generateRefreshToken(userId, fingerprint, jti, clock) ==
    jwtSign([userId |-> userId, type |-> "refresh", jti |-> jti,
             deviceHash |-> IF config.enableDeviceFingerprinting /\ fingerprint # NoFp
                            THEN generateDeviceHash(fingerprint)
                            ELSE NoHash],
            config.refreshTokenSecret, refreshExpiresIn, clock)

\* The RefreshTokenData that generateTokenPair saves (ipAddress and userAgent
\* are stored and never read; they are left out).
refreshTokenData(userId, token, fingerprint, clock) ==
    [userId |-> userId, token |-> token, deviceFingerprint |-> fingerprint,
     isUsed |-> FALSE, createdAt |-> clock * 1000,
     expiresAt |-> clock * 1000 + parseExpiry(config.refreshTokenExpiry)]

-----------------------------------------------------------------------------
(* storage/memoryStorage: operations on the Map *)

EmptyMap == [t \in {} |-> None]

saveRefreshToken(map, data, id) ==
    [t \in DOMAIN map \cup {data.token} |->
        IF t = data.token
        THEN [id |-> id, userId |-> data.userId, token |-> data.token,
              deviceFingerprint |-> data.deviceFingerprint, isUsed |-> data.isUsed,
              createdAt |-> data.createdAt, expiresAt |-> data.expiresAt]
        ELSE map[t]]

\* A variant that falls back to another record when the token has none.
getRefreshTokenOrAny(map, token) ==
    IF token \in DOMAIN map THEN map[token]
    ELSE IF DOMAIN map # {} THEN map[CHOOSE t \in DOMAIN map : TRUE]
    ELSE None

getRefreshToken(map, token) ==
    IF token \in DOMAIN map THEN map[token] ELSE None

\* A variant that deletes every record of the owner of the token.
invalidateTokensOfOwner(map, token) ==
    IF token \in DOMAIN map
    THEN [t \in {k \in DOMAIN map : map[k].userId # map[token].userId} |-> map[t]]
    ELSE map

\* A variant that keeps the record.
invalidateRefreshTokenKept(map, token) == map

invalidateRefreshToken(map, token) ==
    [t \in DOMAIN map \ {token} |-> map[t]]

\* A variant that deletes only the used records of the subject.
invalidateUsedUserTokens(map, userId) ==
    [t \in {k \in DOMAIN map : ~(map[k].userId = userId /\ map[k].isUsed)} |-> map[t]]

\* A variant that clears the whole Map.
invalidateEveryToken(map, userId) == EmptyMap

invalidateAllUserTokens(map, userId) ==
    [t \in {k \in DOMAIN map : map[k].userId # userId} |-> map[t]]

\* A variant whose mark is lost.
markTokenAsUsedLost(map, token) == map

\* A variant that marks every record of the token's subject.
markTokenAsUsedOfSubject(map, token) ==
    IF token \in DOMAIN map
    THEN [t \in DOMAIN map |->
             IF map[t].userId = map[token].userId THEN [map[t] EXCEPT !.isUsed = TRUE]
             ELSE map[t]]
    ELSE map

\* A variant that flips the flag.
markTokenAsUsedToggled(map, token) ==
    IF token \in DOMAIN map
    THEN [map EXCEPT ![token].isUsed = ~@]
    ELSE map

markTokenAsUsed(map, token) ==
    IF token \in DOMAIN map
    THEN [map EXCEPT ![token].isUsed = TRUE]
    ELSE map

cleanupExpiredTokens(map, clock) ==
    [t \in {k \in DOMAIN map : ~(map[k].expiresAt < clock * 1000)} |-> map[t]]

-----------------------------------------------------------------------------
(* security/rateLimiting: helpers *)

Identifiers == {"a", "b", "w", "d", "wd"}   \* client identifiers (IP addresses)
NoUser == "undefined"       \* userId absent
Absent == -1                \* an optional Date or number that is not set (undefined)
NoReason == "undefined"     \* reason absent

DateNow == now * 1000       \* Date.now() / new Date(), in milliseconds

isWhitelisted(ip, whitelist) == ip \in whitelist

\* (a variant that finds no address listed)
isBlacklistedNever(ip, blacklist) == FALSE

isBlacklisted(ip, blacklist) == ip \in blacklist

isWindowExpired(firstAttempt, windowMs) == DateNow - firstAttempt > windowMs

\* (a variant that finds no block in force)
isBlockedNever(blockedUntil) == FALSE

isBlocked(blockedUntil) == IF blockedUntil # Absent THEN blockedUntil > DateNow ELSE FALSE

calculateRetryAfter(blockedUntil) == blockedUntil - DateNow

\* (a variant that does not count the request being checked)
calculateRemainingAttemptsLeft(currentAttempts, maxAttempts) ==
    IF maxAttempts - currentAttempts > 0 THEN maxAttempts - currentAttempts ELSE 0

calculateRemainingAttempts(currentAttempts, maxAttempts) ==
    IF maxAttempts - currentAttempts - 1 > 0 THEN maxAttempts - currentAttempts - 1 ELSE 0

keyGenerator(identifier) == <<"rateLimit", identifier>>

RateLimitResult(allowed, remaining, resetTime, retryAfter, reason) ==
    [status |-> "checked", allowed |-> allowed, remaining |-> remaining,
     resetTime |-> resetTime, retryAfter |-> retryAfter, reason |-> reason]

-----------------------------------------------------------------------------
(* security/rateLimiting/storage/memory: createMemoryRateLimitStorage.  A   *)
(* save sets the entry and arms a timer that deletes the key ttl later; a   *)
(* timer is never cancelled.                                                *)

put(map, key, entry) ==
    [k \in DOMAIN map \cup {key} |-> IF k = key THEN entry ELSE map[k]]

delete(map, key) == [k \in DOMAIN map \ {key} |-> map[k]]

setTimeout(pending, store, key, ttl) ==
    pending \cup {[store |-> store, key |-> key, due |-> DateNow + ttl]}

getRateLimitEntry(map, key) == IF key \in DOMAIN map THEN map[key] ELSE None

saveRateLimitEntry(map, key, entry) == put(map, key, entry)

\* (a variant that counts the first attempt only)
incrementAttemptsOnce(map, key) ==
    LET existing == getRateLimitEntry(map, key)
        entry == IF existing # None
                 THEN [existing EXCEPT !.lastAttempt = DateNow]
                 ELSE [attempts |-> 1, firstAttempt |-> DateNow, lastAttempt |-> DateNow,
                       blockedUntil |-> Absent]
    IN  saveRateLimitEntry(map, key, entry)

incrementAttempts(map, key) ==
    LET existing == getRateLimitEntry(map, key)
        entry == IF existing # None
                 THEN [existing EXCEPT !.attempts = @ + 1, !.lastAttempt = DateNow]
                 ELSE [attempts |-> 1, firstAttempt |-> DateNow, lastAttempt |-> DateNow,
                       blockedUntil |-> Absent]
    IN  saveRateLimitEntry(map, key, entry)

\* (a variant that keeps the entry)
clearRateLimitEntryKept(map, key) == map

clearRateLimitEntry(map, key) == delete(map, key)

getBruteForceEntry(map, userId) == IF userId \in DOMAIN map THEN map[userId] ELSE None

saveBruteForceEntry(map, userId, entry) == put(map, userId, entry)

incrementFailedAttempts(map, userId) ==
    LET existing == getBruteForceEntry(map, userId)
        entry == IF existing # None
                 THEN [existing EXCEPT !.failedAttempts = @ + 1, !.lastFailedAttempt = DateNow]
                 ELSE [failedAttempts |-> 1, lastFailedAttempt |-> DateNow,
                       lockedUntil |-> Absent]
    IN  saveBruteForceEntry(map, userId, entry)

\* (a variant that keeps the entry)
clearBruteForceEntryKept(map, userId) == map

clearBruteForceEntry(map, userId) == delete(map, userId)

-----------------------------------------------------------------------------
(* Configurations and the initial state *)

Seconds(n) == [amount |-> n, unit |-> "s"]
Garbled == [amount |-> 1, unit |-> "x"]    \* "1x": digits followed by no unit of s, m, h, d

\* createAuthContext copies the two expiry strings as they are given.
ConfigsWith(accessExpiries, refreshExpiries) ==
    [accessTokenSecret : {ACCESS_SECRET},
     refreshTokenSecret : {ACCESS_SECRET, REFRESH_SECRET},
     accessTokenExpiry : accessExpiries,
     refreshTokenExpiry : refreshExpiries,
     enableTokenRotation : BOOLEAN,
     enableConcurrentUsageDetection : BOOLEAN,
     enableDeviceFingerprinting : BOOLEAN,
     maxConcurrentTokens : {2},
     verification : {"typed", "untyped"},
     generation : {"string", "parsed"}]

Configs == ConfigsWith({Seconds(1)}, {Seconds(1)})

Idle ==
    [op |-> "none", pc |-> "idle", refreshToken |-> None, deviceInfo |-> NoFp,
     userId |-> "undefined", decoded |-> None, tokenData |-> None,
     result |-> [status |-> "none"], late |-> FALSE, afterCascade |-> FALSE,
     usedBefore |-> FALSE, expiredBefore |-> FALSE]

\* createRateLimitContext: the alert options when none are given (no webhook,
\* no email),
NoAlerts == [enabled |-> FALSE, threshold |-> 5, webhook |-> FALSE, email |-> FALSE]

\* and the alert options of a limiter that is given some.
Alerts == [enabled : BOOLEAN, threshold : {2, 3}, webhook : BOOLEAN, email : BOOLEAN]

\* createRateLimitContext: the options a limiter is built with (alerts off,
\* the default key generator).
Options ==
    [maxAttempts : {2},
     windowMs : {1000, 2000},
     blockDurationMs : {1000, 2000},
     skipSuccessfulRequests : BOOLEAN,
     skipFailedRequests : BOOLEAN,
     whitelist : {{}, {"w", "wd"}},
     blacklist : {{}, {"d", "wd"}},
     bruteForce : [enabled : BOOLEAN,
                   maxFailedAttempts : {2},
                   lockoutDurationMs : {1000, 2000},
                   resetCountOnSuccess : BOOLEAN],
     alerts : {NoAlerts}]

\* entry: what a check has read for its next decision; for a returned record
\* with a userId, the subject's entry as the call found it.  sent: the alerts
\* the call has sent out.
IdleCall ==
    [op |-> "none", pc |-> "idle", identifier |-> "none", userId |-> NoUser,
     success |-> FALSE, entry |-> None, elapsed |-> FALSE, result |-> [status |-> "none"],
     sent |-> {}]

\* A request in the pipeline [rate-limit middleware, record middleware]:
\* where it is, req.rateLimitData, whether the response is the 429, and
\* whether its checkRateLimit call threw.
NoRequest == [stage |-> "none", rateLimitData |-> None, denied |-> FALSE, threw |-> FALSE]

\* createAuthContext over a new createMemoryStorage
StartTokens(configs, e) ==
    /\ env = e
    /\ config \in configs
    /\ now = 0
    /\ tokens = EmptyMap
    /\ idCounter = 1
    /\ issuedRT = <<>>
    /\ exchanged = EmptyBag
    /\ cascaded = {}
    /\ mismatched = {}
    /\ proc = [p \in Callers |-> Idle]

\* createRateLimitContext over a new createMemoryRateLimitStorage
StartLimiter(optionSet) ==
    /\ options \in optionSet
    /\ rateLimitEntries = EmptyMap
    /\ bruteForceEntries = EmptyMap
    /\ timers = {}
    /\ recorded = [i \in Identifiers |-> 0]
    /\ failures = [u \in Users |-> 0]
    /\ lastBlock = [i \in Identifiers |-> Absent]
    /\ inForce = [blocks |-> [i \in Identifiers |-> Absent], locks |-> [u \in Users |-> Absent]]
    /\ calls = [p \in Procs |-> IdleCall]
    /\ requests = [p \in Procs |-> NoRequest]

\* The token specifications build no limiter,
Start(configs, e) == StartTokens(configs, e) /\ StartLimiter({None})

\* Spec: one caller at a time, two subjects, no device info; rotation on,
\* reuse detection on or off, either token generation.
Init ==
    Start({c \in Configs : /\ c.enableTokenRotation
                           /\ ~c.enableDeviceFingerprinting
                           /\ c.refreshTokenSecret = REFRESH_SECRET
                           /\ c.verification = "typed"},
          [procs |-> {1}, users |-> Users, issueFingerprints |-> {NoFp},
           fingerprints |-> {NoFp}, observed |-> {"refresh"},
           maxTokens |-> MaxTokens, maxTime |-> MaxTime, faults |-> {}])

\* SpecRace: two concurrent callers of refreshTokens, one subject; rotation
\* and reuse detection on.
InitRace ==
    Start({c \in Configs : /\ c.enableTokenRotation
                           /\ c.enableConcurrentUsageDetection
                           /\ ~c.enableDeviceFingerprinting
                           /\ c.refreshTokenSecret = REFRESH_SECRET
                           /\ c.verification = "typed"
                           /\ c.generation = "parsed"},
          [procs |-> Procs, users |-> {"u1"}, issueFingerprints |-> {NoFp},
           fingerprints |-> {NoFp}, observed |-> {"refresh"},
           maxTokens |-> RaceTokens, maxTime |-> RaceTime, faults |-> {}])

\* SpecDevice: device binding on, one subject, tokens issued to device F or
\* to no device, presented from F, from G or without device info.
InitDevice ==
    Start({c \in Configs : /\ c.enableTokenRotation
                           /\ c.enableDeviceFingerprinting
                           /\ c.refreshTokenSecret = REFRESH_SECRET
                           /\ c.verification = "typed"
                           /\ c.generation = "parsed"},
          [procs |-> {1}, users |-> {"u1"}, issueFingerprints |-> {"F", NoFp},
           fingerprints |-> Fingerprints \cup {NoFp}, observed |-> {"refresh"},
           maxTokens |-> DeviceTokens, maxTime |-> DeviceTime, faults |-> {}])

\* SpecCodec: every pairing of the two secrets and every build variant of
\* verification and generation; rotation and reuse detection on.
InitCodec ==
    Start({c \in Configs : /\ c.enableTokenRotation
                           /\ c.enableConcurrentUsageDetection
                           /\ ~c.enableDeviceFingerprinting},
          [procs |-> {1}, users |-> Users, issueFingerprints |-> {NoFp},
           fingerprints |-> {NoFp}, observed |-> {"issue", "refresh"},
           maxTokens |-> CodecTokens, maxTime |-> CodecTime, faults |-> {}])

\* SpecLogout: the returns of logoutUser, logoutDevice and cleanupExpiredTokens
\* are observed; two subjects, one caller at a time.
InitLogout ==
    Start({c \in Configs : /\ c.enableTokenRotation
                           /\ c.enableConcurrentUsageDetection
                           /\ ~c.enableDeviceFingerprinting
                           /\ c.refreshTokenSecret = REFRESH_SECRET
                           /\ c.verification = "typed"
                           /\ c.generation = "parsed"},
          [procs |-> {1}, users |-> Users, issueFingerprints |-> {NoFp},
           fingerprints |-> {NoFp},
           observed |-> {"refresh", "logoutUser", "logoutDevice", "cleanupExpiredTokens"},
           maxTokens |-> LogoutTokens, maxTime |-> LogoutTime, faults |-> {}])

\* SpecExpiry: every pairing of three expiry strings ("0s", "1s" and one that
\* is no expiry), either token generation; one caller at a time, one subject.
InitExpiry ==
    Start({c \in ConfigsWith({Seconds(0), Seconds(1), Garbled},
                             {Seconds(0), Seconds(1), Garbled}) :
               /\ c.enableTokenRotation
               /\ c.enableConcurrentUsageDetection
               /\ ~c.enableDeviceFingerprinting
               /\ c.refreshTokenSecret = REFRESH_SECRET
               /\ c.verification = "typed"},
          [procs |-> {1}, users |-> {"u1"}, issueFingerprints |-> {NoFp},
           fingerprints |-> {NoFp}, observed |-> {"issue", "refresh"},
           maxTokens |-> ExpiryTokens, maxTime |-> ExpiryTime, faults |-> {}])

\* SpecFaulty: a storage whose saveRefreshToken may reject; rotation on, reuse
\* detection on or off, one caller at a time, one subject.
InitFaulty ==
    Start({c \in Configs : /\ c.enableTokenRotation
                           /\ ~c.enableDeviceFingerprinting
                           /\ c.refreshTokenSecret = REFRESH_SECRET
                           /\ c.verification = "typed"},
          [procs |-> {1}, users |-> {"u1"}, issueFingerprints |-> {NoFp},
           fingerprints |-> {NoFp}, observed |-> {"issue", "refresh"},
           maxTokens |-> FaultyTokens, maxTime |-> FaultyTime,
           faults |-> {"saveRefreshToken"}])

-----------------------------------------------------------------------------
(* What a caller can present: a refresh token it was handed, the access     *)
(* token of the pair it has just been handed, or a string that is no token. *)

RefreshTokens == {issuedRT[i] : i \in 1..Len(issuedRT)}

Returned(p) == proc[p].pc = "idle" /\ proc[p].op # "none"

AccessTokens ==
    {proc[p].result.accessToken : p \in {q \in Callers : proc[q].result.status = "ok"
                                                         /\ proc[q].op \in {"issue", "refresh"}}}

Presentable == RefreshTokens \cup AccessTokens \cup {Malformed}

\* A result is observed in the state its call returns in; the caller's slot is
\* free again with the next step.
Clear == [q \in Callers |-> IF proc[q].pc = "idle" THEN Idle ELSE proc[q]]

\* A new refresh call takes the lowest free slot.
Free(p) == proc[p].pc = "idle" /\ \A q \in env.procs : q < p => proc[q].pc # "idle"

\* The return of an operation without awaits is recorded when this behaviour
\* observes that operation.
Observed(op, record) == IF op \in env.observed THEN record ELSE Idle

Done(p, status, error) ==
    [Idle EXCEPT !.op = proc[p].op, !.refreshToken = proc[p].refreshToken,
                 !.deviceInfo = proc[p].deviceInfo, !.userId = proc[p].userId,
                 !.late = proc[p].late,
                 !.afterCascade = proc[p].afterCascade,
                 !.usedBefore = proc[p].usedBefore,
                 !.expiredBefore = proc[p].expiredBefore,
                 !.result = [status |-> status, error |-> error]]

-----------------------------------------------------------------------------
(* Clock *)

\* An instant persisted by a check, while it lies ahead of the clock.
Ahead(until, clock) == IF until # Absent /\ until > clock * 1000 THEN until ELSE Absent

Tick ==
    /\ now < env.maxTime
    /\ \A t \in timers : t.due > DateNow
    /\ now' = now + 1
    /\ proc' = Clear
    /\ calls' = [q \in Procs |-> IF calls[q].pc = "idle" THEN IdleCall ELSE calls[q]]
    /\ inForce' = [blocks |-> [i \in Identifiers |-> Ahead(inForce.blocks[i], now')],
                   locks |-> [u \in Users |-> Ahead(inForce.locks[u], now')]]
    /\ UNCHANGED <<env, config, tokens, idCounter, issuedRT, exchanged, cascaded, mismatched,
                   options, rateLimitEntries, bruteForceEntries, timers, recorded, failures,
                   lastBlock, requests>>

-----------------------------------------------------------------------------
(* core/tokenGeneration: generateTokenPair, as issue and as the last block  *)
(* of refresh.  Signing and the save are one block (no await in between).   *)

NoError == "none"
TimespanError == "expiresIn should be a number of seconds or string representing a timespan"
ExpiryFormatError == "Invalid expiry format"
StorageError == "storage error"

\* What generateAccessToken, generateRefreshToken and the parseExpiry of
\* expiresAt throw, in the order they run.
generationError ==
    IF config.generation = "string"
    THEN IF ~timespanDefined(config.accessTokenExpiry) THEN TimespanError
         ELSE IF ~expiryMatch(config.refreshTokenExpiry) THEN ExpiryFormatError
         ELSE NoError
    ELSE IF ~expiryMatch(config.accessTokenExpiry) \/ ~expiryMatch(config.refreshTokenExpiry)
         THEN ExpiryFormatError
         ELSE NoError

\* The storage is an interface: where the environment lets it, saveRefreshToken
\* rejects (the in-memory storage never does).
generateTokenPair(p, op, userId, fingerprint) ==
    LET accessToken == generateAccessToken(userId, now)
        refreshToken == generateRefreshToken(userId, fingerprint,
                                             generateJti(Len(issuedRT) + 1), now)
        call == [Idle EXCEPT !.op = op, !.refreshToken = proc[p].refreshToken,
                             !.deviceInfo = fingerprint, !.userId = userId,
                             !.late = proc[p].late,
                             !.afterCascade = proc[p].afterCascade,
                             !.usedBefore = proc[p].usedBefore,
                             !.expiredBefore = proc[p].expiredBefore]
        thrown(error) ==
            /\ proc' = [Clear EXCEPT ![p] = Observed(op,
                   [call EXCEPT !.result = [status |-> "Failed", error |-> error]])]
            /\ UNCHANGED <<tokens, idCounter, issuedRT>>
    IN  \E rejected \in IF "saveRefreshToken" \in env.faults THEN BOOLEAN ELSE {FALSE} :
            IF generationError # NoError THEN thrown(generationError)
            ELSE IF rejected THEN thrown(StorageError)
            ELSE /\ Len(issuedRT) < env.maxTokens
                 /\ tokens' = saveRefreshToken(tokens,
                        refreshTokenData(userId, refreshToken, fingerprint, now), idCounter)
                 /\ idCounter' = idCounter + 1
                 /\ issuedRT' = Append(issuedRT, refreshToken)
                 /\ proc' = [Clear EXCEPT ![p] = Observed(op,
                        [call EXCEPT !.result = [status |-> "ok", accessToken |-> accessToken,
                                                 refreshToken |-> refreshToken]])]

Issue(userId, fingerprint) ==
    /\ generateTokenPair(Atomic, "issue", userId, fingerprint)
    /\ UNCHANGED <<env, config, now, exchanged, cascaded, mismatched, limiter>>

-----------------------------------------------------------------------------
(* core/tokenRefresh: refreshTokens, one action per block between awaits    *)

\* verifyRefreshToken, then storage.getRefreshToken
RefreshStart(p, rt, fingerprint) ==
    LET v == verifyRefreshToken(rt, now)
        isRT == rt \in RefreshTokens
        call == [Idle EXCEPT !.op = "refresh", !.refreshToken = rt,
                             !.deviceInfo = fingerprint,
                             !.late = isRT /\ BagIn(rt.jti, exchanged),
                             !.afterCascade = isRT /\ rt.jti \in cascaded,
                             !.usedBefore = rt \in DOMAIN tokens /\ tokens[rt].isUsed,
                             !.expiredBefore = /\ rt \in DOMAIN tokens
                                               /\ tokens[rt].expiresAt < now * 1000]
    IN  /\ Free(p)
        /\ proc' = [Clear EXCEPT ![p] =
               IF ~v.success
               THEN [call EXCEPT !.result = [status |-> "Invalid", error |-> v.error]]
               ELSE [call EXCEPT !.pc = "got", !.decoded = v.data,
                                 !.userId = v.data.userId,
                                 !.tokenData = getRefreshToken(tokens, rt),
                                 !.result = [status |-> "pending"]]]
        /\ UNCHANGED <<env, config, now, tokens, idCounter, issuedRT, exchanged, cascaded, mismatched, limiter>>

\* securityChecks: checkConcurrentUsage (TRUE when it invalidates and throws)
checkConcurrentUsage(tokenData) ==
    config.enableConcurrentUsageDetection /\ tokenData.isUsed

\* A variant that never compares the device hash.
checkDeviceFingerprintSkipped(decoded, fingerprint) == FALSE

\* securityChecks: checkDeviceFingerprint (TRUE when it throws)
checkDeviceFingerprint(decoded, fingerprint) ==
    /\ decoded.deviceHash # NoHash
    /\ fingerprint # NoFp
    /\ decoded.deviceHash # generateDeviceHash(fingerprint)

\* securityChecks: checkTokenExpiry (TRUE when it invalidates and throws)
checkTokenExpiry(tokenData, clock) ==
    tokenData.expiresAt < clock * 1000

\* the null test on tokenData, then performSecurityChecks up to its first await
CheckUsage(p) ==
    LET td == proc[p].tokenData IN
    /\ proc[p].pc = "got"
    /\ IF td = None
       THEN /\ proc' = [Clear EXCEPT ![p] = Done(p, "UnknownRefreshToken",
                                               "Invalid refresh token")]
            /\ UNCHANGED <<tokens, cascaded>>
       ELSE IF checkConcurrentUsage(td)
       THEN /\ tokens' = invalidateAllUserTokens(tokens, td.userId)
            /\ cascaded' = cascaded \cup
                   {issuedRT[i].jti : i \in {j \in 1..Len(issuedRT) :
                                                issuedRT[j].userId = td.userId}}
            /\ proc' = [Clear EXCEPT ![p] = Done(p, "ConcurrentUsageDetected",
                            "Concurrent token usage detected. All tokens invalidated.")]
       ELSE /\ proc' = [Clear EXCEPT ![p].pc = "usageChecked"]
            /\ UNCHANGED <<tokens, cascaded>>
    /\ UNCHANGED <<env, config, now, idCounter, issuedRT, exchanged, mismatched, limiter>>

\* performSecurityChecks after checkConcurrentUsage: device check, expiry check
CheckDeviceExpiry(p) ==
    LET td == proc[p].tokenData IN
    /\ proc[p].pc = "usageChecked"
    /\ IF config.enableDeviceFingerprinting
          /\ checkDeviceFingerprint(proc[p].decoded, proc[p].deviceInfo)
       THEN /\ proc' = [Clear EXCEPT ![p] = Done(p, "DeviceMismatch",
                                               "Device mismatch detected")]
            /\ mismatched' = mismatched \cup {proc[p].refreshToken.jti}
            /\ UNCHANGED tokens
       ELSE IF checkTokenExpiry(td, now)
       THEN /\ tokens' = invalidateRefreshToken(tokens, td.token)
            /\ proc' = [Clear EXCEPT ![p] = Done(p, "Expired", "Refresh token expired")]
            /\ UNCHANGED mismatched
       ELSE /\ proc' = [Clear EXCEPT ![p].pc = "checked"]
            /\ UNCHANGED <<tokens, mismatched>>
    /\ UNCHANGED <<env, config, now, idCounter, issuedRT, exchanged, cascaded, limiter>>

\* storage.markTokenAsUsed when rotation is enabled.  The memory storage hands
\* out the stored object itself, so every caller holding it sees the mark.
MarkUsed(p) ==
    LET rt == proc[p].refreshToken IN
    /\ proc[p].pc = "checked"
    /\ config.enableTokenRotation
    /\ tokens' = markTokenAsUsed(tokens, rt)
    /\ proc' = [q \in Callers |->
          LET seen == IF /\ rt \in DOMAIN tokens
                         /\ Clear[q].tokenData # None
                         /\ Clear[q].tokenData.token = rt
                      THEN [Clear[q] EXCEPT !.tokenData.isUsed = TRUE]
                      ELSE Clear[q]
          IN  IF q = p THEN [seen EXCEPT !.pc = "marked"] ELSE seen]
    /\ UNCHANGED <<env, config, now, idCounter, issuedRT, exchanged, cascaded, mismatched, limiter>>

\* generateTokenPair({ id: decoded.userId }, context, deviceInfo)
Generate(p) ==
    /\ proc[p].pc = (IF config.enableTokenRotation THEN "marked" ELSE "checked")
    /\ generateTokenPair(p, "refresh", proc[p].decoded.userId, proc[p].deviceInfo)
    /\ exchanged' = IF issuedRT' # issuedRT
                    THEN exchanged (+) SetToBag({proc[p].refreshToken.jti})
                    ELSE exchanged
    /\ UNCHANGED <<env, config, now, cascaded, mismatched, limiter>>

-----------------------------------------------------------------------------
(* core/tokenInvalidation *)

logoutUser(userId) ==
    /\ tokens' = invalidateAllUserTokens(tokens, userId)
    /\ proc' = [Clear EXCEPT ![Atomic] = Observed("logoutUser",
                   [Idle EXCEPT !.op = "logoutUser", !.userId = userId,
                                !.result = [status |-> "ok"]])]
    /\ UNCHANGED <<env, config, now, idCounter, issuedRT, exchanged, cascaded, mismatched, limiter>>

logoutDevice(rt) ==
    /\ tokens' = invalidateRefreshToken(tokens, rt)
    /\ proc' = [Clear EXCEPT ![Atomic] = Observed("logoutDevice",
                   [Idle EXCEPT !.op = "logoutDevice", !.refreshToken = rt,
                                !.result = [status |-> "ok"]])]
    /\ UNCHANGED <<env, config, now, idCounter, issuedRT, exchanged, cascaded, mismatched, limiter>>

cleanupExpired ==
    /\ tokens' = cleanupExpiredTokens(tokens, now)
    /\ proc' = [Clear EXCEPT ![Atomic] = Observed("cleanupExpiredTokens",
                   [Idle EXCEPT !.op = "cleanupExpiredTokens",
                                !.result = [status |-> "ok"]])]
    /\ UNCHANGED <<env, config, now, idCounter, issuedRT, exchanged, cascaded, mismatched, limiter>>

-----------------------------------------------------------------------------
(* security/rateLimiting/utils/rateLimitingFunctions: checkRateLimit.  The  *)
(* in-memory storage runs each of its methods to the end when it is called, *)
(* so a call's blocks are: the IP lists and the first read; the lockout     *)
(* decision (and its save) with the read of the rate-limit entry; the       *)
(* rate-limit decision (and its save).  Decisions are taken on the entry    *)
(* read in the block before.                                                *)

FreeCall(p) == calls[p].pc = "idle" /\ \A q \in env.procs : q < p => calls[q].pc # "idle"

\* A result is observed in the state its call returns in.
ClearCalls == [q \in Procs |-> IF calls[q].pc = "idle" THEN IdleCall ELSE calls[q]]

Return(p, result) == [calls[p] EXCEPT !.pc = "idle", !.result = result]

\* The storage is an interface: where the environment lets it, a storage call
\* of checkRateLimit rejects, and the call throws (nothing catches in it).
Thrown == [status |-> "thrown"]
Rejections == IF "rateLimitStorage" \in env.faults THEN BOOLEAN ELSE {FALSE}

\* middleware/createRateLimitMiddleware and createRecordAttemptMiddleware:
\* what the middleware awaiting a call does when the call returns.
\* (a variant whose catch answers 429)
rateLimitMiddlewareCatchDenies(req) ==
    [req EXCEPT !.stage = "sent", !.denied = TRUE, !.threw = TRUE]

\* catch: console.error, next()
rateLimitMiddlewareCatch(req) == [req EXCEPT !.stage = "handler", !.threw = TRUE]

resumed(req, call) ==
    IF req.stage = "rateLimit" /\ call.op = "check" /\ call.pc = "idle"
    THEN IF call.result = Thrown THEN rateLimitMiddlewareCatch(req)
         ELSE IF ~call.result.allowed THEN [req EXCEPT !.stage = "sent", !.denied = TRUE]
         ELSE [req EXCEPT !.stage = "handler",
                          !.rateLimitData = [identifier |-> call.identifier,
                                             userId |-> call.userId]]
    ELSE IF req.stage \in {"handler", "recording"} /\ call.op = "record"
    THEN [req EXCEPT !.stage = IF call.pc = "idle" THEN "sent" ELSE "recording"]
    ELSE req

\* The request of caller p after a block of its call: a request that arrives
\* with this block starts in the rate-limit middleware.
served(p, arrives, call) ==
    [requests EXCEPT ![p] =
        resumed(IF arrives THEN [NoRequest EXCEPT !.stage = "rateLimit"] ELSE requests[p], call)]

BlacklistReason == "IP blacklisted"

\* (a variant that consults the blacklist first)
checkIPSecurityBlacklistFirst(identifier) ==
    IF isBlacklisted(identifier, options.blacklist)
    THEN RateLimitResult(FALSE, 0, DateNow + options.blockDurationMs,
                         options.blockDurationMs, BlacklistReason)
    ELSE IF isWhitelisted(identifier, options.whitelist)
    THEN RateLimitResult(TRUE, options.maxAttempts, DateNow + options.windowMs, Absent, NoReason)
    ELSE None

checkIPSecurity(identifier) ==
    IF isWhitelisted(identifier, options.whitelist)
    THEN RateLimitResult(TRUE, options.maxAttempts, DateNow + options.windowMs, Absent, NoReason)
    ELSE IF isBlacklisted(identifier, options.blacklist)
    THEN RateLimitResult(FALSE, 0, DateNow + options.blockDurationMs,
                         options.blockDurationMs, BlacklistReason)
    ELSE None

CheckStart(p, identifier, userId) ==
    /\ FreeCall(p)
    /\ \E rejected \in Rejections :
       LET ipCheck == checkIPSecurity(identifier)
           call == [IdleCall EXCEPT !.op = "check", !.identifier = identifier,
                                    !.userId = userId,
                                    !.elapsed = /\ lastBlock[identifier] # Absent
                                                /\ DateNow >= lastBlock[identifier]]
       IN  calls' = [ClearCalls EXCEPT ![p] =
               IF ipCheck # None
               THEN [call EXCEPT !.result = ipCheck]
               ELSE IF rejected /\ (userId = NoUser \/ options.bruteForce.enabled)
               THEN [call EXCEPT !.result = Thrown]
               ELSE IF userId # NoUser
               THEN [call EXCEPT !.pc = "bruteForce",
                                 !.entry = IF options.bruteForce.enabled
                                           THEN getBruteForceEntry(bruteForceEntries, userId)
                                           ELSE None]
               ELSE [call EXCEPT !.pc = "rateLimit",
                                 !.entry = getRateLimitEntry(rateLimitEntries,
                                                             keyGenerator(identifier))]]
    /\ requests' = served(p, env.middleware, calls'[p])
    /\ UNCHANGED <<inForce, env, config, now, tokens, idCounter, issuedRT, exchanged, cascaded,
                   mismatched, proc, options, rateLimitEntries, bruteForceEntries, timers,
                   recorded, failures, lastBlock>>

LockoutReason == "Account locked due to too many failed attempts"

\* checkBruteForceProtection after its read: the entry is locked,
accountLocked(entry) ==
    /\ options.bruteForce.enabled
    /\ entry # None
    /\ entry.lockedUntil # Absent
    /\ entry.lockedUntil > DateNow

\* (a variant that locks one failure later)
shouldLockAbove(entry) ==
    /\ options.bruteForce.enabled
    /\ entry # None
    /\ entry.failedAttempts > options.bruteForce.maxFailedAttempts

\* or it has reached the limit and is locked now.
shouldLock(entry) ==
    /\ options.bruteForce.enabled
    /\ entry # None
    /\ entry.failedAttempts >= options.bruteForce.maxFailedAttempts

CheckBruteForce(p) ==
    /\ calls[p].op = "check"
    /\ calls[p].pc = "bruteForce"
    /\ \E rejected \in Rejections :
       LET entry == calls[p].entry
           userId == calls[p].userId
           lockoutDurationMs == options.bruteForce.lockoutDurationMs
           lockedUntil == DateNow + lockoutDurationMs
       IN  IF accountLocked(entry)
           THEN /\ calls' = [ClearCalls EXCEPT ![p] =
                       Return(p, RateLimitResult(FALSE, 0, entry.lockedUntil,
                                                 entry.lockedUntil - DateNow, LockoutReason))]
                /\ UNCHANGED <<bruteForceEntries, timers, inForce>>
           ELSE IF rejected
           THEN /\ calls' = [ClearCalls EXCEPT ![p] = Return(p, Thrown)]
                /\ UNCHANGED <<bruteForceEntries, timers, inForce>>
           ELSE IF shouldLock(entry)
           THEN /\ bruteForceEntries' = saveBruteForceEntry(bruteForceEntries, userId,
                                            [entry EXCEPT !.lockedUntil = lockedUntil])
                /\ timers' = setTimeout(timers, "bruteForce", <<userId>>, lockoutDurationMs)
                /\ inForce' = IF env.watch
                              THEN [inForce EXCEPT !.locks[userId] = lockedUntil]
                              ELSE inForce
                /\ calls' = [ClearCalls EXCEPT ![p] =
                       Return(p, RateLimitResult(FALSE, 0, lockedUntil,
                                                 lockoutDurationMs, LockoutReason))]
           ELSE /\ calls' = [ClearCalls EXCEPT ![p] =
                       [calls[p] EXCEPT !.pc = "rateLimit",
                                        !.entry = getRateLimitEntry(rateLimitEntries,
                                                      keyGenerator(calls[p].identifier))]]
                /\ UNCHANGED <<bruteForceEntries, timers, inForce>>
    /\ requests' = served(p, FALSE, calls'[p])
    /\ UNCHANGED <<env, config, now, tokens, idCounter, issuedRT, exchanged, cascaded,
                   mismatched, proc, options, rateLimitEntries, recorded, failures, lastBlock>>

RateLimitReason == "Rate limit exceeded"

\* helperFunctions/sendAlert: the alerts that go out, one for each channel the
\* options name (the webhook's POST, the console warning for the email).
\* (a variant that needs more attempts than the threshold)
sendAlertAbove(identifier, attempts) ==
    IF ~options.alerts.enabled \/ attempts <= options.alerts.threshold
    THEN {}
    ELSE {[channel |-> c, identifier |-> identifier, attempts |-> attempts] :
              c \in {ch \in {"webhook", "email"} : options.alerts[ch]}}

sendAlert(identifier, attempts) ==
    IF ~options.alerts.enabled \/ attempts < options.alerts.threshold
    THEN {}
    ELSE {[channel |-> c, identifier |-> identifier, attempts |-> attempts] :
              c \in {ch \in {"webhook", "email"} : options.alerts[ch]}}

CheckRateLimitEntry(p) ==
    /\ calls[p].op = "check"
    /\ calls[p].pc = "rateLimit"
    /\ \E rejected \in Rejections :
       LET entry == calls[p].entry
           identifier == calls[p].identifier
           key == keyGenerator(identifier)
           blockedUntil == DateNow + options.blockDurationMs
           allow(result) ==
               /\ calls' = [ClearCalls EXCEPT ![p] = Return(p, result)]
               /\ lastBlock' = [lastBlock EXCEPT ![identifier] = Absent]
               /\ UNCHANGED <<rateLimitEntries, timers, inForce>>
       IN  IF entry = None
           THEN allow(RateLimitResult(TRUE, options.maxAttempts - 1,
                                      DateNow + options.windowMs, Absent, NoReason))
           ELSE IF isBlocked(entry.blockedUntil)
           THEN /\ calls' = [ClearCalls EXCEPT ![p] =
                       Return(p, RateLimitResult(FALSE, 0, entry.blockedUntil,
                                                 calculateRetryAfter(entry.blockedUntil),
                                                 RateLimitReason))]
                /\ UNCHANGED <<rateLimitEntries, timers, lastBlock, inForce>>
           ELSE IF isWindowExpired(entry.firstAttempt, options.windowMs)
           THEN allow(RateLimitResult(TRUE, options.maxAttempts - 1,
                                      DateNow + options.windowMs, Absent, NoReason))
           ELSE IF entry.attempts >= options.maxAttempts /\ rejected
           THEN /\ calls' = [ClearCalls EXCEPT ![p] = Return(p, Thrown)]
                /\ UNCHANGED <<rateLimitEntries, timers, lastBlock, inForce>>
           ELSE IF entry.attempts >= options.maxAttempts
           THEN /\ rateLimitEntries' = saveRateLimitEntry(rateLimitEntries, key,
                                           [entry EXCEPT !.blockedUntil = blockedUntil])
                /\ timers' = setTimeout(timers, "rateLimit", key, options.blockDurationMs)
                /\ lastBlock' = [lastBlock EXCEPT ![identifier] = blockedUntil]
                /\ inForce' = IF env.watch
                              THEN [inForce EXCEPT !.blocks[identifier] = blockedUntil]
                              ELSE inForce
                /\ calls' = [ClearCalls EXCEPT ![p] =
                       [Return(p, RateLimitResult(FALSE, 0, blockedUntil,
                                                  options.blockDurationMs, RateLimitReason))
                           EXCEPT !.sent = sendAlert(identifier, entry.attempts)]]
           ELSE allow(RateLimitResult(TRUE,
                          calculateRemainingAttempts(entry.attempts, options.maxAttempts),
                          entry.firstAttempt + options.windowMs, Absent, NoReason))
    /\ requests' = served(p, FALSE, calls'[p])
    /\ UNCHANGED <<env, config, now, tokens, idCounter, issuedRT, exchanged, cascaded,
                   mismatched, proc, options, bruteForceEntries, recorded, failures>>

-----------------------------------------------------------------------------
(* recordAttempt: recordRateLimitAttempt, then (with a userId)              *)
(* recordBruteForceAttempt after the await.                                 *)

suppressed(success) ==
    \/ success /\ options.skipSuccessfulRequests
    \/ ~success /\ options.skipFailedRequests

\* (a variant in which a suppressed attempt ends the call)
continuesUnlessSuppressed(userId, success) == userId # NoUser /\ ~suppressed(success)

\* recordAttempt goes on to the lockout counter when a userId was given.
continues(userId, success) == userId # NoUser

ttl == IF options.windowMs > options.blockDurationMs
       THEN options.windowMs ELSE options.blockDurationMs

RecordStart(p, identifier, userId, success) ==
    /\ FreeCall(p)
    /\ recorded[identifier] < env.maxRecords
    /\ (userId # NoUser /\ ~success) =>
           /\ failures[userId] < env.maxRecords
           /\ getBruteForceEntry(bruteForceEntries, userId) # None
                  => getBruteForceEntry(bruteForceEntries, userId).failedAttempts < env.maxRecords
    /\ LET key == keyGenerator(identifier)
           call == [IdleCall EXCEPT !.op = "record", !.identifier = identifier,
                                    !.userId = userId, !.success = success]
       IN  /\ IF suppressed(success)
              THEN UNCHANGED <<rateLimitEntries, timers, recorded, lastBlock>>
              ELSE /\ rateLimitEntries' = incrementAttempts(rateLimitEntries, key)
                   /\ timers' = setTimeout(timers, "rateLimit", key, ttl)
                   /\ recorded' = [recorded EXCEPT ![identifier] = @ + 1]
                   /\ lastBlock' = [lastBlock EXCEPT ![identifier] = Absent]
           /\ failures' = IF userId # NoUser
                          THEN [failures EXCEPT ![userId] = IF success THEN 0 ELSE @ + 1]
                          ELSE failures
           /\ calls' = [ClearCalls EXCEPT ![p] =
                  IF continues(userId, success)
                  THEN [call EXCEPT !.pc = "bruteForce"]
                  ELSE [call EXCEPT !.result = [status |-> "recorded"]]]
    /\ requests' = served(p, FALSE, calls'[p])
    /\ UNCHANGED <<inForce, env, config, now, tokens, idCounter, issuedRT, exchanged, cascaded,
                   mismatched, proc, options, bruteForceEntries>>

RecordBruteForce(p) ==
    /\ calls[p].op = "record"
    /\ calls[p].pc = "bruteForce"
    /\ LET userId == calls[p].userId
       IN  /\ IF ~options.bruteForce.enabled
              THEN UNCHANGED <<bruteForceEntries, timers>>
              ELSE IF calls[p].success
              THEN /\ bruteForceEntries' =
                          IF options.bruteForce.resetCountOnSuccess
                          THEN clearBruteForceEntry(bruteForceEntries, userId)
                          ELSE bruteForceEntries
                   /\ UNCHANGED timers
              ELSE /\ bruteForceEntries' = incrementFailedAttempts(bruteForceEntries, userId)
                   /\ timers' = setTimeout(timers, "bruteForce", <<userId>>,
                                           options.bruteForce.lockoutDurationMs)
    /\ calls' = [ClearCalls EXCEPT ![p] =
           [Return(p, [status |-> "recorded"]) EXCEPT
               !.entry = getBruteForceEntry(bruteForceEntries, calls[p].userId)]]
    /\ requests' = served(p, FALSE, calls'[p])
    /\ UNCHANGED <<inForce, env, config, now, tokens, idCounter, issuedRT, exchanged, cascaded,
                   mismatched, proc, options, rateLimitEntries, recorded, failures, lastBlock>>

-----------------------------------------------------------------------------
(* The storage's timers.  A callback runs once its delay has passed and no  *)
(* call is in the middle of its blocks (a block's continuation runs before  *)
(* any timer); the clock does not pass a due timer by a whole second.       *)

TimerFire(t) ==
    /\ t \in timers
    /\ t.due <= DateNow
    /\ \A p \in Procs : calls[p].pc = "idle"
    /\ timers' = timers \ {t}
    /\ IF t.store = "rateLimit"
       THEN /\ rateLimitEntries' = delete(rateLimitEntries, t.key)
            /\ recorded' = [recorded EXCEPT ![t.key[2]] = 0]
            /\ UNCHANGED <<bruteForceEntries, failures>>
       ELSE /\ bruteForceEntries' = delete(bruteForceEntries, t.key[1])
            /\ failures' = [failures EXCEPT ![t.key[1]] = 0]
            /\ UNCHANGED <<rateLimitEntries, recorded>>
    /\ calls' = ClearCalls
    /\ UNCHANGED <<inForce, env, config, now, tokens, idCounter, issuedRT, exchanged, cascaded,
                   mismatched, proc, options, lastBlock, requests>>

-----------------------------------------------------------------------------
(* security/rateLimiting/utils/managementFunctions: the storage call of     *)
(* each runs when the function is called.  The returned call keeps, in      *)
(* entry, what the key held.                                                *)

unlockUser(p, userId) ==
    /\ FreeCall(p)
    /\ bruteForceEntries' = clearBruteForceEntry(bruteForceEntries, userId)
    /\ failures' = [failures EXCEPT ![userId] = 0]
    /\ inForce' = [inForce EXCEPT !.locks[userId] = Absent]
    /\ calls' = [ClearCalls EXCEPT ![p] =
           [IdleCall EXCEPT !.op = "unlockUser", !.userId = userId,
                            !.entry = getBruteForceEntry(bruteForceEntries, userId),
                            !.result = [status |-> "unlocked"]]]
    /\ UNCHANGED <<env, config, now, tokens, idCounter, issuedRT, exchanged, cascaded,
                   mismatched, proc, options, rateLimitEntries, timers, recorded, lastBlock,
                   requests>>

unlockIP(p, identifier) ==
    /\ FreeCall(p)
    /\ rateLimitEntries' = clearRateLimitEntry(rateLimitEntries, keyGenerator(identifier))
    /\ recorded' = [recorded EXCEPT ![identifier] = 0]
    /\ lastBlock' = [lastBlock EXCEPT ![identifier] = Absent]
    /\ inForce' = [inForce EXCEPT !.blocks[identifier] = Absent]
    /\ calls' = [ClearCalls EXCEPT ![p] =
           [IdleCall EXCEPT !.op = "unlockIP", !.identifier = identifier,
                            !.entry = getRateLimitEntry(rateLimitEntries,
                                                        keyGenerator(identifier)),
                            !.result = [status |-> "unlocked"]]]
    /\ UNCHANGED <<env, config, now, tokens, idCounter, issuedRT, exchanged, cascaded,
                   mismatched, proc, options, bruteForceEntries, timers, failures, requests>>

-----------------------------------------------------------------------------

Next ==
    \/ Tick
    \/ \E u \in env.users, f \in env.issueFingerprints : Issue(u, f)
    \/ \E p \in env.procs, rt \in Presentable, f \in env.fingerprints :
          RefreshStart(p, rt, f)
    \/ \E p \in env.procs : CheckUsage(p)
    \/ \E p \in env.procs : CheckDeviceExpiry(p)
    \/ \E p \in env.procs : MarkUsed(p)
    \/ \E p \in env.procs : Generate(p)
    \/ \E u \in env.users : logoutUser(u)
    \/ \E rt \in Presentable : logoutDevice(rt)
    \/ cleanupExpired

Spec == Init /\ [][Next]_vars
SpecRace == InitRace /\ [][Next]_vars
SpecDevice == InitDevice /\ [][Next]_vars
SpecCodec == InitCodec /\ [][Next]_vars
SpecLogout == InitLogout /\ [][Next]_vars
SpecExpiry == InitExpiry /\ [][Next]_vars
SpecFaulty == InitFaulty /\ [][Next]_vars

-----------------------------------------------------------------------------
(* The limiter's specifications *)

NextLimiter ==
    \/ Tick
    \/ \E p \in env.procs, i \in env.identifiers, u \in env.subjects : CheckStart(p, i, u)
    \/ \E p \in env.procs : CheckBruteForce(p)
    \/ \E p \in env.procs : CheckRateLimitEntry(p)
    \/ \E p \in env.procs, i \in env.recorders, u \in env.subjects, s \in env.outcomes :
          RecordStart(p, i, u, s)
    \/ \E p \in env.procs : RecordBruteForce(p)
    \/ \E t \in timers : TimerFire(t)

LimiterConfig == CHOOSE c \in Configs : TRUE

\* SpecLimiter: one caller at a time
InitLimiter ==
    /\ StartTokens({LimiterConfig},
                   [procs |-> {1}, identifiers |-> {"a"}, recorders |-> {"a"},
                    subjects |-> {NoUser, "u1"},
                    outcomes |-> BOOLEAN, maxRecords |-> LimiterRecords,
                    maxTime |-> LimiterTime,
                    faults |-> {}, middleware |-> FALSE,
                    watch |-> FALSE])
    /\ StartLimiter({o \in Options : /\ o.whitelist = {} /\ o.blacklist = {}
                                      /\ ~o.skipSuccessfulRequests /\ ~o.skipFailedRequests
                                      /\ o.bruteForce.enabled
                                      /\ o.bruteForce.resetCountOnSuccess})

SpecLimiter == InitLimiter /\ [][NextLimiter]_vars

\* SpecPersist: one caller at a time, one identifier, with or without the
\* subject; every attempt recorded is a failed one; the blocks and locks in
\* force are watched.
InitPersist ==
    /\ StartTokens({LimiterConfig},
                   [procs |-> {1}, identifiers |-> {"a"}, recorders |-> {"a"},
                    subjects |-> {NoUser, "u1"},
                    outcomes |-> {FALSE}, maxRecords |-> PersistRecords,
                    maxTime |-> PersistTime,
                    faults |-> {}, middleware |-> FALSE, watch |-> TRUE])
    /\ StartLimiter({o \in Options : /\ o.whitelist = {} /\ o.blacklist = {}
                                      /\ ~o.skipSuccessfulRequests /\ ~o.skipFailedRequests
                                      /\ o.bruteForce.enabled
                                      /\ o.bruteForce.resetCountOnSuccess})

SpecPersist == InitPersist /\ [][NextLimiter]_vars

\* SpecBlocks: one caller at a time and one identifier, with or without a
\* subject (no lockout); a window of one second, a block of one or three;
\* every setting of the alert options.
InitBlocks ==
    /\ StartTokens({LimiterConfig},
                   [procs |-> {1}, identifiers |-> {"a"}, recorders |-> {"a"},
                    subjects |-> {NoUser, "u1"},
                    outcomes |-> {FALSE}, maxRecords |-> BlocksRecords,
                    maxTime |-> BlocksTime,
                    faults |-> {}, middleware |-> FALSE,
                    watch |-> FALSE])
    /\ StartLimiter({[o EXCEPT !.blockDurationMs = b, !.alerts = a] :
                         o \in {o \in Options : /\ o.whitelist = {} /\ o.blacklist = {}
                                                /\ ~o.skipSuccessfulRequests
                                                /\ ~o.skipFailedRequests
                                                /\ o.windowMs = 1000
                                                /\ o.blockDurationMs = 1000
                                                /\ ~o.bruteForce.enabled
                                                /\ o.bruteForce.lockoutDurationMs = 1000
                                                /\ o.bruteForce.resetCountOnSuccess},
                         b \in {1000, 3000}, a \in Alerts})

SpecBlocks == InitBlocks /\ [][NextLimiter]_vars

\* SpecLists: one caller at a time; identifiers on neither list ("a"), on the
\* whitelist ("w"), on the blacklist ("d") and on both ("wd"); one subject;
\* either skip flag, lockout reset on success or not.  Attempts are recorded
\* for "a" and "wd" (the middleware records after an allowed check only).
InitLists ==
    /\ StartTokens({LimiterConfig},
                   [procs |-> {1}, identifiers |-> {"a", "w", "d", "wd"},
                    recorders |-> {"a", "wd"},
                    subjects |-> {NoUser, "u1"}, outcomes |-> BOOLEAN,
                    maxRecords |-> ListsRecords, maxTime |-> ListsTime,
                    faults |-> {}, middleware |-> FALSE,
                    watch |-> FALSE])
    /\ StartLimiter({o \in Options : /\ o.whitelist = {"w", "wd"}
                                      /\ o.blacklist = {"d", "wd"}
                                      /\ o.windowMs = 2000
                                      /\ o.blockDurationMs = 1000
                                      /\ o.bruteForce.lockoutDurationMs = 1000
                                      /\ o.bruteForce.enabled})

SpecLists == InitLists /\ [][NextLimiter]_vars

\* SpecTracks: one caller at a time; two identifiers on neither list, two
\* subjects, every call with a subject; skipFailedRequests on or off.
InitTracks ==
    /\ StartTokens({LimiterConfig},
                   [procs |-> {1}, identifiers |-> {"a", "b"}, recorders |-> {"a", "b"},
                    subjects |-> Users, outcomes |-> BOOLEAN,
                    maxRecords |-> TracksRecords, maxTime |-> TracksTime,
                    faults |-> {}, middleware |-> FALSE,
                    watch |-> FALSE])
    /\ StartLimiter({o \in Options : /\ o.whitelist = {} /\ o.blacklist = {}
                                      /\ ~o.skipSuccessfulRequests
                                      /\ o.windowMs = 2000
                                      /\ o.blockDurationMs = 1000
                                      /\ o.bruteForce.lockoutDurationMs = 1000
                                      /\ o.bruteForce.enabled
                                      /\ o.bruteForce.resetCountOnSuccess})

SpecTracks == InitTracks /\ [][NextLimiter]_vars

\* SpecLimiterRace: two callers whose calls interleave at their awaits; one
\* identifier, with or without the subject; no skip flag.
InitLimiterRace ==
    /\ StartTokens({LimiterConfig},
                   [procs |-> Procs, identifiers |-> {"a"}, recorders |-> {"a"},
                    subjects |-> {NoUser, "u1"}, outcomes |-> BOOLEAN,
                    maxRecords |-> LimiterRaceRecords, maxTime |-> LimiterRaceTime,
                    faults |-> {}, middleware |-> FALSE,
                    watch |-> FALSE])
    /\ StartLimiter({o \in Options : /\ o.whitelist = {} /\ o.blacklist = {}
                                      /\ ~o.skipSuccessfulRequests /\ ~o.skipFailedRequests
                                      /\ o.windowMs = 2000
                                      /\ o.blockDurationMs = 1000
                                      /\ o.bruteForce.lockoutDurationMs = 1000
                                      /\ o.bruteForce.enabled
                                      /\ o.bruteForce.resetCountOnSuccess})

SpecLimiterRace == InitLimiterRace /\ [][NextLimiter]_vars

\* SpecManaged: the limiter with its two unlock functions; one caller at a
\* time; identifier "a" records failed attempts for subject "u1" and "b" for
\* "u2"; checks and unlocks name any of them.
NextManaged ==
    \/ Tick
    \/ \E p \in env.procs, i \in env.identifiers, u \in env.subjects : CheckStart(p, i, u)
    \/ \E p \in env.procs : CheckBruteForce(p)
    \/ \E p \in env.procs : CheckRateLimitEntry(p)
    \/ \E p \in env.procs, r \in env.records : RecordStart(p, r[1], r[2], r[3])
    \/ \E p \in env.procs : RecordBruteForce(p)
    \/ \E t \in timers : TimerFire(t)
    \/ \E p \in env.procs, u \in env.subjects : unlockUser(p, u)
    \/ \E p \in env.procs, i \in env.identifiers : unlockIP(p, i)

InitManaged ==
    /\ StartTokens({LimiterConfig},
                   [procs |-> {1}, identifiers |-> {"a", "b"}, subjects |-> Users,
                    records |-> {<<"a", "u1", FALSE>>, <<"b", "u2", FALSE>>},
                    maxRecords |-> ManagedRecords, maxTime |-> ManagedTime,
                    faults |-> {}, middleware |-> FALSE,
                    watch |-> FALSE])
    /\ StartLimiter({o \in Options : /\ o.whitelist = {} /\ o.blacklist = {}
                                      /\ ~o.skipSuccessfulRequests /\ ~o.skipFailedRequests
                                      /\ o.windowMs = 1000
                                      /\ o.blockDurationMs = 1000
                                      /\ o.bruteForce.lockoutDurationMs = 1000
                                      /\ o.bruteForce.enabled
                                      /\ o.bruteForce.resetCountOnSuccess})

SpecManaged == InitManaged /\ [][NextManaged]_vars

-----------------------------------------------------------------------------
(* middleware: the pipeline [createRateLimitMiddleware,                     *)
(* createRecordAttemptMiddleware] in front of a route handler.  Every       *)
(* checkRateLimit call is the rate-limit middleware's; the handler answers  *)
(* with a status code through res.send, which the record middleware has     *)
(* wrapped.                                                                 *)

handlerSends(p, statusCode) ==
    LET success == statusCode >= 200 /\ statusCode < 400
        data == requests[p].rateLimitData
    IN  /\ requests[p].stage = "handler"
        /\ IF data # None
           THEN RecordStart(p, data.identifier, data.userId, success)
           ELSE /\ requests' = [requests EXCEPT ![p].stage = "sent"]
                /\ calls' = ClearCalls
                /\ UNCHANGED <<inForce, env, config, now, tokens, idCounter, issuedRT, exchanged,
                               cascaded, mismatched, proc, options, rateLimitEntries,
                               bruteForceEntries, timers, recorded, failures, lastBlock>>

NextPipeline ==
    \/ Tick
    \/ \E p \in env.procs, i \in env.identifiers, u \in env.subjects :
          requests[p].stage \in {"none", "sent"} /\ CheckStart(p, i, u)
    \/ \E p \in env.procs : CheckBruteForce(p)
    \/ \E p \in env.procs : CheckRateLimitEntry(p)
    \/ \E p \in env.procs, statusCode \in env.statusCodes : handlerSends(p, statusCode)
    \/ \E p \in env.procs : RecordBruteForce(p)
    \/ \E t \in timers : TimerFire(t)

\* SpecPipeline: one request at a time from identifier a, with or without a
\* userId, answered 200 or 401; any storage call of checkRateLimit may reject.
InitPipeline ==
    /\ StartTokens({LimiterConfig},
                   [procs |-> {1}, identifiers |-> {"a"}, subjects |-> {NoUser, "u1"},
                    statusCodes |-> {200, 401},
                    maxRecords |-> PipelineRecords, maxTime |-> PipelineTime,
                    faults |-> {"rateLimitStorage"}, middleware |-> TRUE,
                    watch |-> FALSE])
    /\ StartLimiter({o \in Options : /\ o.whitelist = {} /\ o.blacklist = {}
                                      /\ ~o.skipSuccessfulRequests /\ ~o.skipFailedRequests
                                      /\ o.windowMs = 1000
                                      /\ o.blockDurationMs = 1000
                                      /\ o.bruteForce.lockoutDurationMs = 1000
                                      /\ o.bruteForce.resetCountOnSuccess})

SpecPipeline == InitPipeline /\ [][NextPipeline]_vars

-----------------------------------------------------------------------------
(* Properties *)

RefreshReturned(p) == Returned(p) /\ proc[p].op = "refresh"

Status(p) == proc[p].result.status

Expired(record) == record.expiresAt < now * 1000

\* C1 (as stated): with rotation and reuse detection enabled, of the refresh
\* calls that present the same unused, unexpired token concurrently at most
\* one succeeds, so that no token is ever exchanged by two successful calls.
C1_AtMostOneConcurrentRefreshSucceeds ==
    \A jti \in BagToSet(exchanged) : CopiesIn(jti, exchanged) <= 1

\* C1 witness: the second of two overlapping refresh calls on one token has
\* just returned a pair too.
C1_Witness ==
    \E p \in Procs :
        /\ RefreshReturned(p)
        /\ Status(p) = "ok"
        /\ ~proc[p].late
        /\ CopiesIn(proc[p].refreshToken.jti, exchanged) = 2

\* C2 (as stated, read in its favour for reuse detection enabled and a token
\* the codec still accepts): with rotation enabled, every refresh of a token
\* that an earlier refresh has exchanged fails with ConcurrentUsageDetected.
C2_EveryLaterRefreshIsConcurrentUsage ==
    \A p \in Procs :
        (/\ RefreshReturned(p)
         /\ proc[p].late
         /\ config.enableConcurrentUsageDetection
         /\ Status(p) # "Invalid")
        => Status(p) = "ConcurrentUsageDetected"

\* C2 (amended): with rotation and reuse detection enabled, a refresh of a
\* token that an earlier refresh has exchanged never succeeds.  It fails with
\* ConcurrentUsageDetected when the lookup still finds the token's record,
\* with UnknownRefreshToken when the record has been removed in between, and
\* with Invalid only when verification rejects the token.
C2_LaterRefreshNeverSucceeds ==
    /\ [](\A p \in Procs :
            (/\ proc[p].late
             /\ config.enableConcurrentUsageDetection)
            => /\ proc[p].pc \in {"idle", "got"}
               /\ RefreshReturned(p) =>
                    /\ Status(p) \in {"ConcurrentUsageDetected", "UnknownRefreshToken",
                                      "Invalid"}
                    /\ Status(p) = "Invalid" =>
                         ~verifyRefreshToken(proc[p].refreshToken, now).success)
    /\ [][\A p \in Procs :
            (/\ proc[p].pc = "got"
             /\ proc[p].late
             /\ config.enableConcurrentUsageDetection
             /\ proc'[p].pc # "got")
            => proc'[p].result.status =
                   IF proc[p].tokenData = None THEN "UnknownRefreshToken"
                                               ELSE "ConcurrentUsageDetected"]_vars

\* C2 witness: the second refresh of an exchanged token has just failed with
\* ConcurrentUsageDetected, while the token returned by the first is stored no more.
C2_Witness ==
    /\ config.enableConcurrentUsageDetection
    /\ RefreshReturned(1)
    /\ proc[1].late
    /\ Status(1) = "ConcurrentUsageDetected"
    /\ Len(issuedRT) >= 2
    /\ proc[1].refreshToken = issuedRT[1]
    /\ issuedRT[2] \notin DOMAIN tokens

\* C3 (as stated): after a replay cascade on subject S, every refresh token
\* issued to S before it fails with UnknownRefreshToken when presented.
C3_CascadedTokensAreUnknown ==
    \A p \in Procs :
        (RefreshReturned(p) /\ proc[p].afterCascade)
        => Status(p) = "UnknownRefreshToken"

\* C3 (amended): after a refresh fails with ConcurrentUsageDetected for
\* subject S, no record of S is left and the records of the other subjects
\* are as they were; every refresh token issued to S before that moment fails
\* when presented, with UnknownRefreshToken while verification accepts it and
\* with Invalid once verification rejects it (its signature has expired).
C3_CascadedTokensFail ==
    /\ [](\A p \in Procs :
            (RefreshReturned(p) /\ proc[p].afterCascade)
            => \/ Status(p) = "UnknownRefreshToken"
               \/ /\ Status(p) = "Invalid"
                  /\ ~verifyRefreshToken(proc[p].refreshToken, now).success)
    /\ [][\A p \in Procs :
            (/\ proc[p].pc = "got"
             /\ proc'[p].pc = "idle"
             /\ proc'[p].result.status = "ConcurrentUsageDetected")
            => LET S == proc[p].decoded.userId IN
               /\ \A t \in DOMAIN tokens' : tokens'[t].userId # S
               /\ \A t \in DOMAIN tokens :
                     tokens[t].userId # S => /\ t \in DOMAIN tokens'
                                             /\ tokens'[t] = tokens[t]
               /\ \A i \in 1..Len(issuedRT) :
                     issuedRT[i].userId = S => issuedRT[i].jti \in cascaded']_vars

\* C3 witness: a token that was never exchanged, issued to a subject before a
\* cascade on it, has just failed with UnknownRefreshToken, and a record of
\* the other subject is still stored.
C3_Witness ==
    \E p \in Procs :
        /\ RefreshReturned(p)
        /\ proc[p].afterCascade
        /\ ~proc[p].late
        /\ Status(p) = "UnknownRefreshToken"
        /\ \E t \in DOMAIN tokens : tokens[t].userId # proc[p].refreshToken.userId

\* The refresh call of caller p presents, from device G, a token bound to
\* another device F.
WrongDevice(p) ==
    \E F \in Fingerprints : \E G \in Fingerprints \ {F} :
        /\ proc[p].refreshToken \in RefreshTokens
        /\ proc[p].refreshToken.deviceHash = generateDeviceHash(F)
        /\ proc[p].deviceInfo = G

\* The refresh call of caller p presents a bound token from its own device.
RightDevice(p) ==
    /\ proc[p].refreshToken \in RefreshTokens
    /\ proc[p].deviceInfo \in Fingerprints
    /\ proc[p].refreshToken.deviceHash = generateDeviceHash(proc[p].deviceInfo)

\* C4: with device binding enabled, a refresh that presents a token issued
\* with fingerprint F from a fingerprint G # F never succeeds; once it has
\* passed verification, lookup and the reuse check it fails with
\* DeviceMismatch, and none of its steps changes the store (nothing is marked
\* used, nothing is removed).  A later refresh presenting F is not rejected
\* for the device, and has the store as it was to succeed on.
C4_DeviceMismatchLeavesStore ==
    /\ [](\A p \in Procs :
            /\ (RefreshReturned(p) /\ WrongDevice(p))
               => Status(p) \in {"DeviceMismatch", "Invalid", "UnknownRefreshToken",
                                 "ConcurrentUsageDetected"}
            /\ (RefreshReturned(p) /\ RightDevice(p))
               => Status(p) # "DeviceMismatch"
            /\ (RefreshReturned(p) /\ Status(p) = "DeviceMismatch")
               => /\ WrongDevice(p)
                  /\ proc[p].refreshToken.jti \in mismatched)
    /\ [][\A p \in Procs :
            /\ (/\ proc[p].pc = "usageChecked"
                /\ WrongDevice(p)
                /\ proc'[p].pc # "usageChecked")
               => /\ proc'[p].pc = "idle"
                  /\ proc'[p].result.status = "DeviceMismatch"
                  /\ tokens' = tokens
            /\ (/\ proc[p].pc \in {"got", "usageChecked"}
                /\ WrongDevice(p)
                /\ proc'[p].pc # proc[p].pc
                /\ proc'[p].result.status # "ConcurrentUsageDetected")
               => tokens' = tokens]_vars

\* C4 witness: a token that was rejected with DeviceMismatch has just been
\* exchanged by a refresh presenting the fingerprint it was issued with.
C4_Witness ==
    /\ config.enableDeviceFingerprinting
    /\ RefreshReturned(1)
    /\ Status(1) = "ok"
    /\ RightDevice(1)
    /\ proc[1].refreshToken.jti \in mismatched

\* C5 (as stated): a refresh presenting a token whose record is both used and
\* past its expiresAt does not fail with Invalid (nor with Expired): reuse
\* detection comes first.  A refresh that fails with Invalid has not touched
\* the store, so the record it leaves is the record it was presented against.
C5_ReuseAlarmBeforeExpiry ==
    \A p \in Procs :
        (/\ RefreshReturned(p)
         /\ config.enableConcurrentUsageDetection
         /\ Status(p) \in {"Invalid", "Expired"})
        => ~(/\ proc[p].refreshToken \in DOMAIN tokens
             /\ tokens[proc[p].refreshToken].isUsed
             /\ Expired(tokens[proc[p].refreshToken]))

\* C5 witness: with reuse detection enabled, the refresh of an exchanged
\* token fails with Invalid and leaves the token's used, expired record stored.
C5_Witness ==
    /\ config.enableConcurrentUsageDetection
    /\ RefreshReturned(1)
    /\ proc[1].late
    /\ Status(1) = "Invalid"
    /\ proc[1].refreshToken \in DOMAIN tokens
    /\ tokens[proc[1].refreshToken].isUsed
    /\ Expired(tokens[proc[1].refreshToken])

\* C6 (as stated): for every pairing of the secrets, verifyRefresh accepts no
\* access token, verifyAccess accepts no refresh token, and no refresh
\* succeeds on an access token.
C6_KindsNeverCross ==
    /\ \A t \in AccessTokens : ~verifyRefreshToken(t, now).success
    /\ \A t \in RefreshTokens : ~verifyAccessToken(t, now).success
    /\ \A p \in Procs :
          (RefreshReturned(p) /\ Status(p) = "ok")
          => proc[p].refreshToken.type = "refresh"

\* C6 witness: verifyRefreshToken accepts the access token issue has just returned.
C6_Witness ==
    \E t \in AccessTokens :
        /\ t.type = "access"
        /\ verifyRefreshToken(t, now).success

\* C7 (as stated): with rotation enabled, whatever the reuse-detection
\* toggle, a refresh of a token that an earlier refresh has exchanged does
\* not succeed.
C7_ExchangedTokenNeverExchangedAgain ==
    \A p \in Procs :
        (/\ config.enableTokenRotation
         /\ RefreshReturned(p)
         /\ proc[p].late)
        => Status(p) # "ok"

\* C7 witness: with rotation on and reuse detection off, a token that was
\* exchanged before has just been exchanged again.
C7_Witness ==
    /\ config.enableTokenRotation
    /\ ~config.enableConcurrentUsageDetection
    /\ RefreshReturned(1)
    /\ proc[1].late
    /\ Status(1) = "ok"

\* C8: logoutUser(S) removes every record of S and no other record, changes
\* no remaining record and raises no error; called again directly after, it
\* raises no error and leaves the store as the first call left it, with no
\* record of S.
C8_LogoutUserRemovesSubjectOnly ==
    [][proc'[Atomic].op = "logoutUser" =>
         LET S == proc'[Atomic].userId IN
         /\ proc'[Atomic].result.status = "ok"
         /\ DOMAIN tokens' = {t \in DOMAIN tokens : tokens[t].userId # S}
         /\ \A t \in DOMAIN tokens' : tokens'[t] = tokens[t]
         /\ (proc[Atomic].op = "logoutUser" /\ proc[Atomic].userId = S)
            => tokens' = tokens]_vars

\* C8 witness: logoutUser has just returned for a subject that had been
\* issued tokens; none of its records is stored, one of the other subject is.
C8_Witness ==
    /\ proc[Atomic].op = "logoutUser"
    /\ \E i \in 1..Len(issuedRT) : issuedRT[i].userId = proc[Atomic].userId
    /\ \A t \in DOMAIN tokens : tokens[t].userId # proc[Atomic].userId
    /\ tokens # EmptyMap

\* C9: logoutDevice(rt) deletes the record stored under rt and nothing else:
\* every other record, of the same subject too, is unchanged; when no record
\* is stored under rt the store is unchanged; no error is raised either way.
C9_LogoutDeviceRemovesOneRecord ==
    [][proc'[Atomic].op = "logoutDevice" =>
         LET rt == proc'[Atomic].refreshToken IN
         /\ proc'[Atomic].result.status = "ok"
         /\ DOMAIN tokens' = DOMAIN tokens \ {rt}
         /\ \A t \in DOMAIN tokens' : tokens'[t] = tokens[t]
         /\ rt \notin DOMAIN tokens => tokens' = tokens]_vars

\* C9 witness: logoutDevice has just returned for an issued token; its record
\* is gone and another record of the same subject is still stored.
C9_Witness ==
    /\ proc[Atomic].op = "logoutDevice"
    /\ proc[Atomic].refreshToken \in RefreshTokens
    /\ proc[Atomic].refreshToken \notin DOMAIN tokens
    /\ \E t \in DOMAIN tokens : tokens[t].userId = proc[Atomic].refreshToken.userId

\* C10: in the state issue or a successful refresh returns in, verifyAccess
\* accepts the returned access token and decodes the subject's id (for
\* refresh, the subject of the presented token).
C10_AccessTokenRoundTrip ==
    \A p \in Callers :
        (Returned(p) /\ proc[p].op \in {"issue", "refresh"} /\ Status(p) = "ok")
        => LET v == verifyAccessToken(proc[p].result.accessToken, now)
               subject == IF proc[p].op = "issue" THEN proc[p].userId
                          ELSE proc[p].refreshToken.userId
           IN  /\ v.success
               /\ v.data.userId = subject
               /\ v.data.type = "access"

\* C10 witness: a refresh has just returned a pair, for the second subject.
C10_Witness ==
    /\ RefreshReturned(1)
    /\ Status(1) = "ok"
    /\ proc[1].refreshToken.userId = "u2"
    /\ verifyAccessToken(proc[1].result.accessToken, now).success

-----------------------------------------------------------------------------
(* Properties of the rate limiter *)

CheckReturned(p) == calls[p].op = "check" /\ calls[p].pc = "idle"

Listed(identifier) == identifier \in options.whitelist \cup options.blacklist

StoredEntry(identifier) == getRateLimitEntry(rateLimitEntries, keyGenerator(identifier))

\* The clock is strictly inside the window the identifier's counter opened
\* with its first attempt (or there is no counter).
InsideWindow(identifier) ==
    StoredEntry(identifier) # None
        => DateNow < StoredEntry(identifier).firstAttempt + options.windowMs

C12_AllowedOnceBlockElapsed ==
    \A p \in Procs :
        (CheckReturned(p) /\ calls[p].elapsed /\ calls[p].result.reason # LockoutReason)
        => /\ calls[p].result.allowed
           /\ calls[p].result.remaining = options.maxAttempts - 1

\* With blockDurationMs below windowMs, a check after the block finds the
\* counter deleted by the timer of the block's save, and is allowed afresh.
C12_Witness ==
    \E p \in Procs :
        /\ CheckReturned(p)
        /\ calls[p].elapsed
        /\ options.blockDurationMs < options.windowMs
        /\ calls[p].entry = None
        /\ calls[p].result.allowed
        /\ calls[p].result.remaining = options.maxAttempts - 1

StoredLockout(userId) == getBruteForceEntry(bruteForceEntries, userId)

\* A check of a subject for which maxFailedAttempts failed attempts have been
\* recorded with no successful one in between (and whose counter the store
\* has not deleted since).
OverFailed(p) ==
    /\ CheckReturned(p)
    /\ calls[p].userId # NoUser
    /\ options.bruteForce.enabled
    /\ failures[calls[p].userId] >= options.bruteForce.maxFailedAttempts

Locks(p) ==
    /\ ~calls[p].result.allowed
    /\ calls[p].result.reason = LockoutReason
    /\ StoredLockout(calls[p].userId) # None
    /\ StoredLockout(calls[p].userId).lockedUntil > DateNow
    /\ ~accountLocked(calls[p].entry)
           => /\ StoredLockout(calls[p].userId).lockedUntil
                     = DateNow + options.bruteForce.lockoutDurationMs
              /\ calls[p].result.retryAfter = options.bruteForce.lockoutDurationMs

RecordReturned(p) == calls[p].op = "record" /\ calls[p].pc = "idle"

\* C14: with resetCountOnSuccess, a successful record for a subject leaves it
\* without failed count; between calls the stored count is the number of
\* failed records since, and a check refuses the subject for the lockout only
\* when maxFailedAttempts failed records have followed the last success.
C14_SuccessResetsFailedCount ==
    options.bruteForce.resetCountOnSuccess
    => /\ \A p \in Procs :
              /\ (RecordReturned(p) /\ calls[p].success /\ calls[p].userId # NoUser)
                    => StoredLockout(calls[p].userId) = None
              /\ (CheckReturned(p) /\ calls[p].result.reason = LockoutReason)
                    => failures[calls[p].userId] >= options.bruteForce.maxFailedAttempts
       /\ \A u \in Users :
              (StoredLockout(u) # None /\ \A p \in Procs : calls[p].pc = "idle")
              => StoredLockout(u).failedAttempts = failures[u]

\* A successful record finds the subject one failure short of the limit and
\* clears its entry.
C14_Witness ==
    \E p \in Procs :
        /\ options.bruteForce.resetCountOnSuccess
        /\ RecordReturned(p)
        /\ calls[p].success
        /\ calls[p].userId # NoUser
        /\ calls[p].entry # None
        /\ calls[p].entry.failedAttempts = options.bruteForce.maxFailedAttempts - 1
        /\ StoredLockout(calls[p].userId) = None
        /\ failures[calls[p].userId] = 0

\* C15: a check of a whitelisted identifier returns at once with allowed =
\* true, whatever else holds of the identifier (blacklisted too, counter over
\* the limit) or of the subject (locked), and writes nothing to the store.
C15_WhitelistedAlwaysAllowed ==
    [][\A p \in Procs, i \in Identifiers, u \in Users \cup {NoUser} :
          (CheckStart(p, i, u) /\ isWhitelisted(i, options.whitelist))
          => /\ calls'[p].pc = "idle"
             /\ calls'[p].result.allowed
             /\ UNCHANGED <<rateLimitEntries, bruteForceEntries, timers>>]_vars

\* The identifier on both lists is allowed while its counter is over the
\* limit and the subject it names is locked.
C15_Witness ==
    \E p \in Procs :
        /\ CheckReturned(p)
        /\ isWhitelisted(calls[p].identifier, options.whitelist)
        /\ isBlacklisted(calls[p].identifier, options.blacklist)
        /\ StoredEntry(calls[p].identifier) # None
        /\ StoredEntry(calls[p].identifier).attempts >= options.maxAttempts
        /\ calls[p].userId # NoUser
        /\ accountLocked(StoredLockout(calls[p].userId))
        /\ calls[p].result.allowed

\* C16: a check of an identifier that is on the blacklist and not on the
\* whitelist returns at once with allowed = false and the blacklist as its
\* reason, and leaves every counter as it was.
C16_BlacklistedDenied ==
    [][\A p \in Procs, i \in Identifiers, u \in Users \cup {NoUser} :
          (CheckStart(p, i, u) /\ i \in options.blacklist /\ i \notin options.whitelist)
          => /\ calls'[p].pc = "idle"
             /\ ~calls'[p].result.allowed
             /\ calls'[p].result.reason = BlacklistReason
             /\ UNCHANGED <<rateLimitEntries, bruteForceEntries, timers>>]_vars

\* The blacklisted identifier is refused as such with a subject that has
\* reached the failure limit; the subject is not locked by that check.
C16_Witness ==
    \E p \in Procs :
        /\ CheckReturned(p)
        /\ calls[p].identifier \in options.blacklist \ options.whitelist
        /\ calls[p].userId # NoUser
        /\ shouldLock(StoredLockout(calls[p].userId))
        /\ StoredLockout(calls[p].userId).lockedUntil = Absent
        /\ ~calls[p].result.allowed
        /\ calls[p].result.reason = BlacklistReason

Quiescent == \A p \in Procs : calls[p].pc = "idle"

\* C17: the two tracks are independent.  Between calls an identifier's
\* stored attempts are the records made for it that no skip flag suppressed,
\* whatever their subjects, and a subject's stored failed count is the failed
\* records made for it, whatever their identifiers and whatever the skip
\* flags; a check refuses for the lockout once the subject has
\* maxFailedAttempts of them, and otherwise for the rate once the identifier
\* has maxAttempts inside its window.
C17_TracksIndependent ==
    /\ \A i \in Identifiers :
          (Quiescent /\ StoredEntry(i) # None) => StoredEntry(i).attempts = recorded[i]
    /\ \A u \in Users :
          (Quiescent /\ StoredLockout(u) # None) => StoredLockout(u).failedAttempts = failures[u]
    /\ \A u \in Users :
          (Quiescent /\ StoredLockout(u) = None) => failures[u] = 0
    /\ \A p \in Procs :
          (CheckReturned(p) /\ ~Listed(calls[p].identifier))
          => IF failures[calls[p].userId] >= options.bruteForce.maxFailedAttempts
             THEN ~calls[p].result.allowed /\ calls[p].result.reason = LockoutReason
             ELSE (recorded[calls[p].identifier] >= options.maxAttempts
                   /\ InsideWindow(calls[p].identifier))
                  => ~calls[p].result.allowed /\ calls[p].result.reason = RateLimitReason

\* A subject is refused for the lockout after failed records from two
\* identifiers, each of them under maxAttempts.
C17_Witness ==
    \E p \in Procs :
        /\ CheckReturned(p)
        /\ calls[p].result.reason = LockoutReason
        /\ failures[calls[p].userId] = options.bruteForce.maxFailedAttempts
        /\ ~options.skipFailedRequests
        /\ \A i \in env.identifiers :
              recorded[i] > 0 /\ recorded[i] < options.maxAttempts

\* C18: no counter update is lost under concurrency: once all the
\* concurrent record and check calls of an identifier, made inside one
\* window, have returned, the stored attempts equal the number of record
\* calls that no skip flag suppressed.
C18_NoRecordLost ==
    \A i \in Identifiers :
        (Quiescent /\ StoredEntry(i) # None /\ InsideWindow(i))
        => StoredEntry(i).attempts = recorded[i]

\* A record has run between the read and the decision of a check that is
\* allowed (and so writes nothing): the record is counted.
C18_Witness ==
    \E p \in Procs :
        /\ CheckReturned(p)
        /\ calls[p].result.allowed
        /\ calls[p].entry # None
        /\ InsideWindow(calls[p].identifier)
        /\ StoredEntry(calls[p].identifier).attempts = calls[p].entry.attempts + 1
        /\ StoredEntry(calls[p].identifier).attempts = recorded[calls[p].identifier]

\* C20: a check returns remaining within 0..maxAttempts, and 0 whenever it
\* denies; for an identifier on neither list that is not refused for a
\* lockout, it returns allowed with remaining = maxAttempts - 1 when there is
\* no counter, and allowed with remaining = maxAttempts - attempts - 1 when
\* the counter is inside its window and under the limit.
C20_Remaining ==
    \A p \in Procs :
        CheckReturned(p)
        => /\ calls[p].result.remaining \in 0..options.maxAttempts
           /\ ~calls[p].result.allowed => calls[p].result.remaining = 0
           /\ (~Listed(calls[p].identifier) /\ calls[p].result.reason # LockoutReason)
                => /\ StoredEntry(calls[p].identifier) = None
                        => /\ calls[p].result.allowed
                           /\ calls[p].result.remaining = options.maxAttempts - 1
                   /\ (/\ StoredEntry(calls[p].identifier) # None
                       /\ ~isWindowExpired(StoredEntry(calls[p].identifier).firstAttempt,
                                            options.windowMs)
                       /\ StoredEntry(calls[p].identifier).attempts < options.maxAttempts)
                        => /\ calls[p].result.allowed
                           /\ calls[p].result.remaining =
                                 options.maxAttempts
                                     - StoredEntry(calls[p].identifier).attempts - 1

\* A check of a counter inside its window and one attempt under the limit is
\* allowed with remaining = 0.
C20_Witness ==
    \E p \in Procs :
        /\ CheckReturned(p)
        /\ ~Listed(calls[p].identifier)
        /\ StoredEntry(calls[p].identifier) # None
        /\ StoredEntry(calls[p].identifier).attempts = options.maxAttempts - 1
        /\ ~isWindowExpired(StoredEntry(calls[p].identifier).firstAttempt, options.windowMs)
        /\ calls[p].result.allowed
        /\ calls[p].result.remaining = 0

-----------------------------------------------------------------------------
(* Properties of the token store's size *)

\* The stored records of a subject that are neither expired nor used.
LiveTokens(userId) ==
    {t \in DOMAIN tokens : /\ tokens[t].userId = userId
                            /\ ~tokens[t].isUsed
                            /\ ~Expired(tokens[t])}

\* C19: after any sequence of issue and refresh calls, the live refresh
\* records stored for one subject are never more than maxConcurrentTokens.
C19_AtMostMaxConcurrentTokens ==
    \A u \in Users : Cardinality(LiveTokens(u)) <= config.maxConcurrentTokens

-----------------------------------------------------------------------------
(* Properties of the management functions *)

\* C21: unlockUser removes the subject's lockout entry and unlockIP removes
\* the identifier's rate-limit entry, whatever the entry holds and whether or
\* not there is one; each leaves the other map and every other key as they
\* were; and afterwards a check is refused for the lockout (for the rate)
\* only when maxFailedAttempts failed attempts (maxAttempts attempts) have
\* been recorded since the unlock.
C21_UnlockClearsOneKey ==
    /\ [][\A p \in Procs, u \in Users :
             unlockUser(p, u)
             => /\ getBruteForceEntry(bruteForceEntries', u) = None
                /\ \A v \in Users \ {u} :
                      getBruteForceEntry(bruteForceEntries', v)
                          = getBruteForceEntry(bruteForceEntries, v)
                /\ rateLimitEntries' = rateLimitEntries]_vars
    /\ [][\A p \in Procs, i \in Identifiers :
             unlockIP(p, i)
             => /\ getRateLimitEntry(rateLimitEntries', keyGenerator(i)) = None
                /\ \A j \in Identifiers \ {i} :
                      getRateLimitEntry(rateLimitEntries', keyGenerator(j))
                          = getRateLimitEntry(rateLimitEntries, keyGenerator(j))
                /\ bruteForceEntries' = bruteForceEntries]_vars
    /\ [](\A p \in Procs :
             CheckReturned(p)
             => /\ calls[p].result.reason = LockoutReason
                     => failures[calls[p].userId] >= options.bruteForce.maxFailedAttempts
                /\ calls[p].result.reason = RateLimitReason
                     => recorded[calls[p].identifier] >= options.maxAttempts)

\* unlockIP of a blocked identifier, while the other identifier has a counter
\* and a subject is locked.
C21_Witness ==
    \E p \in Procs :
        /\ calls[p].op = "unlockIP"
        /\ calls[p].pc = "idle"
        /\ calls[p].entry # None
        /\ isBlocked(calls[p].entry.blockedUntil)
        /\ StoredEntry(calls[p].identifier) = None
        /\ \E j \in Identifiers \ {calls[p].identifier} : StoredEntry(j) # None
        /\ \E u \in Users : accountLocked(StoredLockout(u))

-----------------------------------------------------------------------------
(* Properties of the expiry strings *)

\* C22: a malformed expiry string never surfaces at sign time: no
\* generateTokenPair or refreshTokens call ends with the error of an expiry
\* string that cannot be read (construction would have rejected the string).
C22_MalformedExpiryNeverSurfacesAtSignTime ==
    \A p \in Callers :
        Returned(p) /\ proc[p].result.status = "Failed"
            => proc[p].result.error \notin {ExpiryFormatError, TimespanError}

\* C22's case: a context has been constructed with an expiry string that is
\* no expiry, and a generateTokenPair call on it has returned.
C22_Witness ==
    /\ ~expiryMatch(config.accessTokenExpiry) \/ ~expiryMatch(config.refreshTokenExpiry)
    /\ Returned(Atomic)
    /\ proc[Atomic].op = "issue"


\* C28: every stored refresh record expires after it was created, whatever
\* refreshTokenExpiry the context and generateTokenPair accept ("0s" included).
C28_ExpiresAfterCreated ==
    \A t \in DOMAIN tokens : tokens[t].expiresAt > tokens[t].createdAt

\* C28's case: generateTokenPair has stored a record under refreshTokenExpiry "0s".
C28_Witness ==
    /\ config.refreshTokenExpiry = Seconds(0)
    /\ \E t \in DOMAIN tokens : ~tokens[t].isUsed

-----------------------------------------------------------------------------
(* Properties of the middleware pipeline *)

\* C23: when a storage call fails during the rate-limit middleware's check,
\* the request is let through (next() is called, the response is not the 429)
\* and the record middleware records no attempt for it: rateLimitData is
\* never set, no recordAttempt call is made for the request, and the response
\* is sent with both counters as they were.
C23_FailOpen ==
    /\ [](\A p \in Procs :
            requests[p].threw =>
                /\ requests[p].stage \in {"handler", "sent"}
                /\ ~requests[p].denied
                /\ requests[p].rateLimitData = None
                /\ calls[p].op # "record")
    /\ [][\A p \in Procs :
            /\ (calls'[p].op = "check" /\ calls'[p].pc = "idle" /\ calls'[p].result = Thrown)
                   => requests'[p].threw /\ requests'[p].stage = "handler"
            /\ (requests[p].threw /\ requests[p].stage = "handler"
                 /\ requests'[p].stage = "sent")
                   => /\ rateLimitEntries' = rateLimitEntries
                      /\ bruteForceEntries' = bruteForceEntries
                      /\ timers' = timers]_vars

\* C23's case: a request whose check threw, after the identifier had reached
\* its limit, has been answered by the handler.
C23_Witness ==
    /\ requests[1].threw
    /\ requests[1].stage = "sent"
    /\ StoredEntry("a") # None
    /\ StoredEntry("a").attempts >= options.maxAttempts

-----------------------------------------------------------------------------
(* Properties of a refresh whose new pair is not issued *)

\* A refresh call of p fails in generateTokenPair with this step.
GenerateFails(p) ==
    /\ proc[p].op = "refresh"
    /\ proc[p].pc = "marked"
    /\ proc'[p].pc = "idle"
    /\ proc'[p].result.status = "Failed"

\* A refresh call of p saves and returns its new pair with this step.
GenerateSucceeds(p) ==
    /\ proc[p].op = "refresh"
    /\ proc[p].pc \in {"checked", "marked"}
    /\ proc'[p].pc = "idle"
    /\ proc'[p].result.status = "ok"

\* C24: with rotation, the presented record is marked used before the new
\* record is saved; when generateTokenPair fails after the mark the store is
\* left as the mark made it (the old record used, no new record), and every
\* later refresh of that token (one that finds it used though no refresh has
\* exchanged it) fails.
C24_MarkedBeforeSavedAndNeverAgain ==
    /\ [][\A p \in Procs :
            LET rt == proc[p].refreshToken IN
            /\ (GenerateSucceeds(p) /\ rt \in DOMAIN tokens)
                   => tokens[rt].isUsed
            /\ GenerateFails(p)
                   => /\ tokens' = tokens
                      /\ issuedRT' = issuedRT
                      /\ rt \in DOMAIN tokens => tokens[rt].isUsed]_vars
    /\ [](\A p \in Procs :
            RefreshReturned(p) /\ proc[p].usedBefore /\ ~proc[p].late
                => Status(p) # "ok")

\* C24's case: a refresh of a token that an earlier refresh had marked and
\* then failed to exchange has returned.
C24_Witness ==
    \E p \in Procs :
        /\ RefreshReturned(p)
        /\ proc[p].usedBefore
        /\ ~proc[p].late
        /\ Status(p) \in {"ok", "ConcurrentUsageDetected"}

-----------------------------------------------------------------------------
(* Properties of the store under refresh *)

\* C25: a successful refresh with rotation changes the store in exactly this
\* way: its blocks before the mark change nothing; the mark sets isUsed on the
\* presented record and on nothing else; generateTokenPair adds exactly one
\* record, the returned refresh token's, with isUsed false and the subject of
\* the presented token, and leaves every other record as it is, the presented
\* one used.
C25_RefreshMarksOneAddsOne ==
    [][\A p \in Procs :
          LET rt == proc[p].refreshToken
              op == IF proc[p].pc = "idle" THEN proc'[p].op ELSE proc[p].op
          IN  (op = "refresh" /\ proc'[p] # proc[p] /\ proc'[p] # Clear[p]
               /\ config.enableTokenRotation) =>
              /\ proc[p].pc \in {"idle", "got", "usageChecked"}
                  /\ proc'[p].pc \in {"got", "usageChecked", "checked"}
                     => tokens' = tokens
              /\ proc[p].pc = "checked" /\ proc'[p].pc = "marked"
                     => /\ DOMAIN tokens' = DOMAIN tokens
                        /\ \A t \in DOMAIN tokens :
                              tokens'[t] = IF t = rt THEN [tokens[t] EXCEPT !.isUsed = TRUE]
                                           ELSE tokens[t]
              /\ GenerateSucceeds(p)
                     => LET new == proc'[p].result.refreshToken IN
                        /\ new \notin DOMAIN tokens
                        /\ DOMAIN tokens' = DOMAIN tokens \cup {new}
                        /\ ~tokens'[new].isUsed
                        /\ tokens'[new].userId = rt.userId
                        /\ \A t \in DOMAIN tokens : tokens'[t] = tokens[t]
                        /\ rt \in DOMAIN tokens
                              => tokens[rt].isUsed /\ tokens[rt].userId = rt.userId]_vars

\* C25's case: a refresh has succeeded; the presented record is stored and
\* used, the new record unused, next to an unused record of another subject.
C25_Witness ==
    \E p \in Procs :
        /\ RefreshReturned(p)
        /\ Status(p) = "ok"
        /\ config.enableTokenRotation
        /\ proc[p].refreshToken \in DOMAIN tokens
        /\ tokens[proc[p].refreshToken].isUsed
        /\ ~tokens[proc[p].result.refreshToken].isUsed
        /\ \E t \in DOMAIN tokens : tokens[t].userId # proc[p].userId /\ ~tokens[t].isUsed


\* The store after a call of p has returned with this step and this status.
ReturnsWith(p, status) ==
    /\ proc[p].op \in {"none", "refresh"}
    /\ proc'[p].op = "refresh"
    /\ proc'[p] # proc[p]
    /\ proc'[p].pc = "idle"
    /\ proc'[p].result.status = status

\* Only the record of the token p presented is removed by this step.
RemovesJustThatRecord(p) ==
    /\ DOMAIN tokens' = DOMAIN tokens \ {proc'[p].refreshToken}
    /\ \A t \in DOMAIN tokens' : tokens'[t] = tokens[t]
    /\ issuedRT' = issuedRT

\* C26 as stated: a refresh of a token whose record is unused and past its
\* expiresAt fails with Expired, and removes just that record (no other
\* record changes, none is created).
C26_ExpiredRecordFailsExpired ==
    /\ [](\A p \in Procs :
            RefreshReturned(p) /\ proc[p].expiredBefore /\ ~proc[p].usedBefore
                => Status(p) = "Expired")
    /\ [][\A p \in Procs : ReturnsWith(p, "Expired") => RemovesJustThatRecord(p)]_vars

\* C26, amended: such a refresh fails with Expired when verification accepts
\* the token, and then removes just that record; it fails with Invalid, and
\* changes nothing, when verification rejects it (the signature has expired).
C26_ExpiredRecordFailsExpiredOrInvalid ==
    /\ [](\A p \in Procs :
            RefreshReturned(p) /\ proc[p].expiredBefore /\ ~proc[p].usedBefore
                => IF verifyRefreshToken(proc[p].refreshToken, now).success
                   THEN Status(p) = "Expired"
                   ELSE Status(p) = "Invalid")
    /\ [][\A p \in Procs :
            /\ ReturnsWith(p, "Expired") => RemovesJustThatRecord(p)
            /\ ReturnsWith(p, "Invalid") => tokens' = tokens /\ issuedRT' = issuedRT]_vars

\* C26's case: a refresh has failed with Expired while the store held other
\* records, of the same subject and of another.
C26_Witness ==
    \E p \in Procs :
        /\ RefreshReturned(p)
        /\ Status(p) = "Expired"
        /\ proc[p].expiredBefore
        /\ ~proc[p].usedBefore
        /\ proc[p].refreshToken \notin DOMAIN tokens
        /\ \E t \in DOMAIN tokens : tokens[t].userId = proc[p].userId
        /\ \E t \in DOMAIN tokens : tokens[t].userId # proc[p].userId


\* A record is Active in a store at a time: stored, not used, not past its expiresAt.
ActiveIn(map, clock, t) ==
    /\ t \in DOMAIN map
    /\ ~map[t].isUsed
    /\ ~(map[t].expiresAt < clock * 1000)

\* C27: under every sequence of generateTokenPair, refreshTokens, logoutDevice,
\* logoutUser and cleanupExpiredTokens, the isUsed of a stored record only goes
\* from false to true; a token that is not Active (used, expired or removed) is
\* not Active after the step unless the step has just generated it; and a
\* token value that was stored before is never inserted again.
C27_UsedIsMonotonicNoWayBackToActive ==
    /\ [](DOMAIN tokens \subseteq RefreshTokens)
    /\ [][/\ \A t \in DOMAIN tokens \cap DOMAIN tokens' :
                /\ tokens[t].isUsed => tokens'[t].isUsed
                /\ tokens'[t].expiresAt = tokens[t].expiresAt
          /\ \A t \in RefreshTokens :
                /\ ActiveIn(tokens', now', t) => ActiveIn(tokens, now, t)
                /\ t \in DOMAIN tokens' => t \in DOMAIN tokens
          /\ now' >= now]_vars

\* C27's case: the store holds a used record and an expired one, and a third
\* token has been removed.
C27_Witness ==
    /\ \E t \in DOMAIN tokens : tokens[t].isUsed
    /\ \E t \in DOMAIN tokens : ~tokens[t].isUsed /\ tokens[t].expiresAt < now * 1000
    /\ \E t \in RefreshTokens : t \notin DOMAIN tokens


\* C29: a refresh presenting a token that verification accepts and that has
\* no record in the store finds no token data, fails with 'Invalid refresh
\* token' (UnknownRefreshToken) at its next block, and neither block changes
\* the store: no record is created, marked or removed.
C29_UnknownTokenChangesNothing ==
    [][\A p \in Procs :
          /\ (/\ proc[p].pc = "idle"
               /\ proc'[p].op = "refresh"
               /\ proc'[p] # Clear[p]
               /\ verifyRefreshToken(proc'[p].refreshToken, now).success
               /\ proc'[p].refreshToken \notin DOMAIN tokens)
                 => /\ proc'[p].pc = "got"
                    /\ proc'[p].tokenData = None
                    /\ tokens' = tokens /\ issuedRT' = issuedRT
          /\ (/\ proc[p].op = "refresh"
               /\ proc[p].pc = "got"
               /\ proc[p].tokenData = None
               /\ proc'[p] # proc[p])
                 => /\ ReturnsWith(p, "UnknownRefreshToken")
                    /\ tokens' = tokens /\ issuedRT' = issuedRT /\ idCounter' = idCounter]_vars

\* C29's case: a refresh of a token that verification accepts has failed as
\* unknown while the store holds records, one of them used.
C29_Witness ==
    \E p \in Procs :
        /\ RefreshReturned(p)
        /\ Status(p) = "UnknownRefreshToken"
        /\ verifyRefreshToken(proc[p].refreshToken, now).success
        /\ proc[p].refreshToken \notin DOMAIN tokens
        /\ \E t \in DOMAIN tokens : tokens[t].isUsed
        /\ \E t \in DOMAIN tokens : ~tokens[t].isUsed

-----------------------------------------------------------------------------
(* Properties of the window of a rate-limit counter *)

\* C30: once the clock is past firstAttempt + windowMs, the next recorded
\* attempt of the identifier starts a new window: the stored entry has
\* attempts = 1 and firstAttempt = now after the record, whatever it held.
C30_RecordStartsNewWindow ==
    [][\A p \in Procs :
          LET identifier == calls'[p].identifier
              key == keyGenerator(identifier)
              entry == getRateLimitEntry(rateLimitEntries, key)
          IN  (/\ calls[p].pc = "idle"
               /\ calls'[p].op = "record"
               /\ calls'[p] # ClearCalls[p]
               /\ ~suppressed(calls'[p].success)
               /\ entry # None
               /\ DateNow > entry.firstAttempt + options.windowMs)
                 => /\ getRateLimitEntry(rateLimitEntries', key).attempts = 1
                    /\ getRateLimitEntry(rateLimitEntries', key).firstAttempt = DateNow]_vars

\* C30's case: an attempt has just been recorded for an identifier whose
\* stored window had expired.
C30_Witness ==
    \E p \in Procs :
        /\ calls[p].op = "record"
        /\ StoredEntry(calls[p].identifier) # None
        /\ StoredEntry(calls[p].identifier).lastAttempt = DateNow
        /\ DateNow > StoredEntry(calls[p].identifier).firstAttempt + options.windowMs

-----------------------------------------------------------------------------
(* The order of the tests in checkRateLimitEntry *)

\* The check of caller p takes its rate-limit decision, in this step, on a
\* counter whose window has expired.
DecidesOnExpiredWindow(p) ==
    /\ calls[p].op = "check"
    /\ calls[p].pc = "rateLimit"
    /\ calls[p].entry # None
    /\ DateNow - calls[p].entry.firstAttempt > options.windowMs
    /\ calls'[p].pc = "idle"

\* C31 (as stated): the window-expired test comes before the blockedUntil
\* test: a check that reads a counter with now - firstAttempt > windowMs is
\* allowed with the budget of a new window, whatever the counter's
\* blockedUntil is.
C31_WindowExpiredAllowedWhateverBlock ==
    [][\A p \in Procs :
          DecidesOnExpiredWindow(p)
          => /\ calls'[p].result.allowed
             /\ calls'[p].result.remaining = options.maxAttempts - 1]_vars

\* C31 (amended): the blockedUntil test comes before the window-expired test:
\* a check that reads a counter with now - firstAttempt > windowMs is denied
\* with retryAfter = blockedUntil - now while the counter's blockedUntil is in
\* the future, and otherwise is allowed with the budget of a new window; in
\* both cases it writes nothing.
C31_BlockTestedBeforeWindow ==
    [][\A p \in Procs :
          DecidesOnExpiredWindow(p)
          => /\ IF /\ calls[p].entry.blockedUntil # Absent
                   /\ calls[p].entry.blockedUntil > DateNow
                THEN /\ ~calls'[p].result.allowed
                     /\ calls'[p].result.remaining = 0
                     /\ calls'[p].result.retryAfter = calls[p].entry.blockedUntil - DateNow
                     /\ calls'[p].result.reason = RateLimitReason
                ELSE /\ calls'[p].result.allowed
                     /\ calls'[p].result.remaining = options.maxAttempts - 1
             /\ rateLimitEntries' = rateLimitEntries
             /\ timers' = timers]_vars

\* A check has returned denied on a counter whose window had expired and whose
\* block was still in force.
C31_Witness ==
    \E p \in Procs :
        /\ CheckReturned(p)
        /\ calls[p].entry # None
        /\ DateNow - calls[p].entry.firstAttempt > options.windowMs
        /\ calls[p].entry.blockedUntil # Absent
        /\ calls[p].entry.blockedUntil > DateNow
        /\ ~calls[p].result.allowed
        /\ calls[p].result.retryAfter = calls[p].entry.blockedUntil - DateNow

-----------------------------------------------------------------------------
(* Blocks and locks in force *)

\* C32: once a check has persisted blockedUntil = T for an identifier, every
\* check of that identifier that reaches the rate-limit step at a time before
\* T is denied with retryAfter = T - now, whatever checks, records and timer
\* deletions come in between (no unlock is called).
C32_BlockHoldsUntilT ==
    \A p \in Procs :
        (/\ CheckReturned(p)
         /\ calls[p].result.reason # LockoutReason
         /\ inForce.blocks[calls[p].identifier] # Absent)
        => /\ ~calls[p].result.allowed
           /\ calls[p].result.retryAfter = inForce.blocks[calls[p].identifier] - DateNow

\* A check taken after the one that set the block, and before T, is denied
\* with what is left of the block.
C32_Witness ==
    \E p \in Procs :
        /\ CheckReturned(p)
        /\ inForce.blocks[calls[p].identifier] # Absent
        /\ ~calls[p].result.allowed
        /\ calls[p].result.reason = RateLimitReason
        /\ calls[p].result.retryAfter = inForce.blocks[calls[p].identifier] - DateNow
        /\ calls[p].result.retryAfter < options.blockDurationMs

\* C33: once a check has persisted lockedUntil = T for a subject, every check
\* naming that subject from an identifier off the allow-list at a time before
\* T is denied with retryAfter = T - now, whatever checks, failed records and
\* timer deletions come in between (no unlock is called).
C33_LockHoldsUntilT ==
    \A p \in Procs :
        (/\ CheckReturned(p)
         /\ calls[p].userId # NoUser
         /\ calls[p].identifier \notin options.whitelist
         /\ inForce.locks[calls[p].userId] # Absent)
        => /\ ~calls[p].result.allowed
           /\ calls[p].result.retryAfter = inForce.locks[calls[p].userId] - DateNow

\* A check taken after the one that set the lock, and before T, is denied
\* with what is left of the lockout.
C33_Witness ==
    \E p \in Procs :
        /\ CheckReturned(p)
        /\ calls[p].userId # NoUser
        /\ inForce.locks[calls[p].userId] # Absent
        /\ ~calls[p].result.allowed
        /\ calls[p].result.reason = LockoutReason
        /\ calls[p].result.retryAfter = inForce.locks[calls[p].userId] - DateNow
        /\ calls[p].result.retryAfter < options.bruteForce.lockoutDurationMs

\* The check of caller p has read, for its lockout decision, an entry whose
\* lockedUntil is no longer ahead and which has counted no failed attempt
\* since that lock was set.
ReadsPassedLock(p) ==
    /\ calls[p].op = "check"
    /\ calls[p].pc = "bruteForce"
    /\ calls[p].entry # None
    /\ calls[p].entry.lockedUntil # Absent
    /\ calls[p].entry.lockedUntil <= DateNow
    /\ calls[p].entry.lastFailedAttempt
           <= calls[p].entry.lockedUntil - options.bruteForce.lockoutDurationMs

\* C34: a lockout is temporary: once lockedUntil has passed and no failed
\* attempt has been recorded since the lock, a check of the subject is not
\* denied for lockout and sets no new lockedUntil (no unlock is called).
C34_LockoutIsTemporary ==
    [][\A p \in Procs :
          (ReadsPassedLock(p) /\ calls'[p] # calls[p])
          => /\ calls'[p].pc = "rateLimit"
             /\ bruteForceEntries' = bruteForceEntries]_vars

\* A check is about to decide on such an entry.
C34_Witness == \E p \in Procs : ReadsPassedLock(p)

-----------------------------------------------------------------------------
(* Alerts *)

\* In this step the call of caller p returns from a check that has set the
\* identifier's blockedUntil.
SetsBlock(p) ==
    LET key == keyGenerator(calls'[p].identifier)
        before == getRateLimitEntry(rateLimitEntries, key)
        after == getRateLimitEntry(rateLimitEntries', key)
    IN  /\ calls'[p].op = "check"
        /\ before # None
        /\ after # None
        /\ after.blockedUntil # before.blockedUntil

-----------------------------------------------------------------------------
(* Device binding of a rotated token *)

\* C36: with device binding enabled, a refresh token issued with fingerprint
\* F is exchanged only by a refresh that presents F: a successful refresh of
\* a bound token has presented the fingerprint the token was bound to (not
\* another one, and not none), and the refresh token it returns is bound to
\* the same fingerprint.
C36_BoundTokenExchangedOnlyByItsDevice ==
    \A p \in Procs :
        (/\ config.enableDeviceFingerprinting
         /\ RefreshReturned(p)
         /\ Status(p) = "ok"
         /\ proc[p].refreshToken.deviceHash # NoHash)
        => /\ proc[p].deviceInfo # NoFp
           /\ proc[p].refreshToken.deviceHash = generateDeviceHash(proc[p].deviceInfo)
           /\ proc[p].result.refreshToken.deviceHash = proc[p].refreshToken.deviceHash

\* A bound token has been exchanged from its own device, and the refresh
\* token handed back is bound to that device.
C36_Witness ==
    \E p \in Procs :
        /\ config.enableDeviceFingerprinting
        /\ RefreshReturned(p)
        /\ Status(p) = "ok"
        /\ RightDevice(p)
        /\ proc[p].result.refreshToken.deviceHash = generateDeviceHash(proc[p].deviceInfo)

-----------------------------------------------------------------------------
(* Revocation and the refreshes in flight *)

\* The refresh of caller p is in flight with the record it has read, and a
\* revocation has completed since: the record, not yet expired, is no longer
\* in the store (nothing else removes a record before its expiresAt).
RevokedInFlight(p) ==
    /\ proc[p].op = "refresh"
    /\ proc[p].pc \in {"got", "usageChecked", "checked", "marked"}
    /\ proc[p].tokenData # None
    /\ proc[p].tokenData.expiresAt >= now * 1000
    /\ proc[p].refreshToken \notin DOMAIN tokens

\* C37: a revocation is not undone by a refresh that was in flight when it
\* completed: a refresh of subject S in flight at a revokeAll(S) (logoutUser,
\* or the cascade of reuse detection), or a refresh of rt in flight at a
\* revokeOne(rt), adds no record to the store when it finishes.
C37_RevocationNotUndoneInFlight ==
    [][\A p \in Procs :
          (RevokedInFlight(p) /\ proc'[p].pc = "idle")
          => DOMAIN tokens' \subseteq DOMAIN tokens]_vars

\* A refresh that has passed its checks is in flight, and a revocation of
\* its subject has completed.
C37_Witness ==
    \E p \in Procs :
        /\ RevokedInFlight(p)
        /\ proc[p].pc \in {"checked", "marked"}
        /\ \A rt \in DOMAIN tokens : tokens[rt].userId # proc[p].userId
-----------------------------------------------------------------------------
(* The expiry signed into a refresh token and the expiresAt of its record *)

\* C38: the expiry signed into a refresh token agrees with the expiresAt of
\* its stored record: an unused record's token is accepted by
\* verifyRefreshToken at every time before the record's expiresAt and at no
\* time after it.
C38_SignedExpiryAgreesWithRecord ==
    \A rt \in DOMAIN tokens :
        ~tokens[rt].isUsed
        => /\ now * 1000 < tokens[rt].expiresAt => verifyRefreshToken(rt, now).success
           /\ now * 1000 > tokens[rt].expiresAt => ~verifyRefreshToken(rt, now).success

\* An unused record is past its expiresAt and its token is no longer accepted
\* (the expiry strings are the same and jwt.sign is given the string).
C38_Witness ==
    \E rt \in DOMAIN tokens :
        /\ ~tokens[rt].isUsed
        /\ now * 1000 > tokens[rt].expiresAt
        /\ tokens[rt].expiresAt > tokens[rt].createdAt
        /\ ~verifyRefreshToken(rt, now).success
        /\ config.generation = "string"

=============================================================================
